---- MODULE Spec2Model ----
(***************************************************************************)
(* Model of the artifact generation and recovery pipeline of courseCreator *)
(*                                                                         *)
(*   Spec     the backend service: backend/routes/generate.py,             *)
(*            backend/services/pipeline.py and backend/services/llm.py,    *)
(*            validated by the pydantic models of backend/models/types.py  *)
(*   SpecGen  the Streamlit generator: generator/generator.py with the     *)
(*            dataclasses of generator/models.py                           *)
(*   SpecBatch the batch processor: generator/batch_processor.py with      *)
(*            generator/audio.py                                           *)
(*   SpecApp  the source aggregation of app.py's generation flow           *)
(*   SpecMd   the markdown exporters: generator/markdown_utils.py and      *)
(*            generator/markdown_export.py                                 *)
(*   SpecWait the polling of a render job: heygen_client.wait_for_video    *)
(*   SpecSess the session state of the Streamlit app across its script     *)
(*            runs: app.py's generation flow, HeyGen and TTS handlers      *)
(*   SpecOpenAI the instructor guide parser of generator/llm_openai.py     *)
(*   SpecPrompt the source text that reaches a user prompt: generator.py's *)
(*            helpers, batch_processor.py's context and llm.py's f-string  *)
(***************************************************************************)
EXTENDS Integers, Sequences, FiniteSets, TLC

VARIABLES
    env_key,    \* os.environ["OPENAI_API_KEY"] of the backend process
    phase,      \* position of the backend request handler
    req,        \* the request being served
    kstate,     \* per artifact kind: START, PROMPTING, PARSING, FALLBACK, DONE
    parsed,     \* per kind: what _structured_completion returned
    artifact,   \* per kind: what generate_<kind> returned
    response,   \* what the handler handed to its caller
    hist,       \* per kind: what happened on the way (observation only)
    past,       \* what earlier requests of the process did (observation only)
    g_key,      \* the key _read_api_key finds for the Streamlit generator
    g_pc,       \* position inside generator.generate_<kind>
    g_call,     \* the arguments of the generate_<kind> call
    g_payload,  \* what _call_json_response returned
    g_parsed,   \* what _parse_<kind> did with the payload
    g_result,   \* what generate_<kind> returned
    g_log,      \* st.error messages and remote calls of the call
    b_key,      \* the key _read_api_key finds during the batch
    b_cb,       \* whether process_batch was given a progress_callback
    b_rows,     \* the rows of the batch
    b_pc,       \* position inside parse_csv / process_batch
    b_i,        \* the loop index i of process_batch
    b_script,   \* the segments' narrations of the row's video script
    b_zip,      \* the entries written to the archive
    b_progress, \* the fractions handed to progress_callback
    b_log,      \* generator calls made, the row that raised (observation only)
    app_key,    \* the key _read_api_key finds for the Streamlit app
    app_notes,  \* st.session_state.handwritten_notes_text
    app_pc,     \* what the last click on Generate came to
    app_in,     \* the inputs of the last click on Generate (observation only)
    app_text,   \* the full_text handed to the generators
    md_pc,      \* position of the call of a markdown exporter
    md_in,      \* the exporter called and its artifact
    md_out,     \* what the exporter returned
    w_pc,       \* position inside heygen_client.wait_for_video
    w_args,     \* poll_interval and timeout_seconds of the call
    w_elapsed,  \* time.time() - start, in seconds
    w_payload,  \* status_data of the last poll
    w_out,      \* how the call ended
    p_notes,    \* st.session_state.handwritten_notes_text of the process
    p_pc,       \* whether a user prompt has been built
    p_in,       \* the path taken and the text handed to it
    p_out,      \* the source text embedded in the user prompt
    session,    \* st.session_state: the package, narration and render job
    s_pc,       \* idle between script runs, or waiting inside wait_for_video
    s_jobs,     \* per render job submitted: the package it was submitted for
    s_log,      \* packages generated, what the last run did (observation only)
    o_pc,       \* position of the call of llm_openai._parse_instructor_guide
    o_payload,  \* the payload handed to it
    o_out       \* the sections of the guide it returned, or that it raised

backendVars == <<env_key, phase, req, kstate, parsed, artifact, response, hist, past>>
genVars == <<g_key, g_pc, g_call, g_payload, g_parsed, g_result, g_log>>

mdVars == <<md_pc, md_in, md_out>>
appVars == <<app_key, app_notes, app_pc, app_in, app_text>>
batchVars == <<b_key, b_cb, b_rows, b_pc, b_i, b_script, b_zip, b_progress, b_log>>
waitVars == <<w_pc, w_args, w_elapsed, w_payload, w_out>>
promptVars == <<p_notes, p_pc, p_in, p_out>>
sessVars == <<session, s_pc, s_jobs, s_log>>
openaiVars == <<o_pc, o_payload, o_out>>

vars == <<env_key, phase, req, kstate, parsed, artifact, response, hist, past,
          g_key, g_pc, g_call, g_payload, g_parsed, g_result, g_log,
          b_key, b_cb, b_rows, b_pc, b_i, b_script, b_zip, b_progress, b_log,
          app_key, app_notes, app_pc, app_in, app_text,
          md_pc, md_in, md_out,
          w_pc, w_args, w_elapsed, w_payload, w_out,
          p_notes, p_pc, p_in, p_out,
          session, s_pc, s_jobs, s_log,
          o_pc, o_payload, o_out>>

\* what the actions of one component leave alone
nonBackendVars ==
    <<genVars, batchVars, appVars, mdVars,
      waitVars, promptVars, sessVars, openaiVars>>
nonGenVars ==
    <<backendVars, batchVars, appVars, mdVars,
      waitVars, promptVars, sessVars, openaiVars>>
nonBatchVars ==
    <<backendVars, genVars, appVars, mdVars,
      waitVars, promptVars, sessVars, openaiVars>>
nonAppVars ==
    <<backendVars, genVars, batchVars, mdVars,
      waitVars, promptVars, sessVars, openaiVars>>
nonMdVars ==
    <<backendVars, genVars, batchVars, appVars,
      waitVars, promptVars, sessVars, openaiVars>>
nonWaitVars ==
    <<backendVars, genVars, batchVars, appVars,
      mdVars, promptVars, sessVars, openaiVars>>
nonPromptVars ==
    <<backendVars, genVars, batchVars, appVars,
      mdVars, waitVars, sessVars, openaiVars>>
nonSessVars ==
    <<backendVars, genVars, batchVars, appVars,
      mdVars, waitVars, promptVars, openaiVars>>
nonOpenAIVars ==
    <<backendVars, genVars, batchVars, appVars,
      mdVars, waitVars, promptVars, sessVars>>

(***************************************************************************)
(* JSON values as Python sees them after json.loads.  Every value of one   *)
(* nesting level is a record of one shape, tagged by t.                    *)
(***************************************************************************)
Missing == [t |-> "missing", n |-> 0, s |-> "", l |-> <<>>]
JNull == [t |-> "null", n |-> 0, s |-> "", l |-> <<>>]
JInt(i) == [t |-> "int", n |-> i, s |-> "", l |-> <<>>]
JStr(x) == [t |-> "str", n |-> 0, s |-> x, l |-> <<>>]
JList(xs) == [t |-> "list", n |-> 0, s |-> "", l |-> xs]

\* the value under a list-of-objects key (sections, segments, steps)
\* (a string there iterates as its characters, held in l)
NoList == [t |-> "missing", n |-> 0, l |-> <<>>]
NullList == [t |-> "null", n |-> 0, l |-> <<>>]
IntList(i) == [t |-> "int", n |-> i, l |-> <<>>]
StrList(chars) == [t |-> "str", n |-> 0, l |-> chars]
ListOf(xs) == [t |-> "list", n |-> 0, l |-> xs]

\* a nested item: a dict with fields f, or something that is no dict
Dict(f) == [t |-> "dict", f |-> f]
NonDict(tag, fields) == [t |-> tag, f |-> [x \in fields |-> Missing]]

\* a top-level JSON document; PyNone is Python's None (JSON null)
PyNone == [t |-> "none", n |-> 0, title |-> Missing, items |-> NoList, extra |-> FALSE]
JObject(title, items, extra) ==
    [t |-> "object", n |-> 0, title |-> title, items |-> items, extra |-> extra]
EmptyObject == JObject(Missing, NoList, FALSE)

\* bool(x) of a top-level document
PyTruthy(j) ==
    CASE j.t = "none" -> FALSE
      [] j.t = "object" -> j.title.t # "missing" \/ j.items.t # "missing" \/ j.extra

(***************************************************************************)
(* backend/models/types.py                                                 *)
(***************************************************************************)
KindSeq == <<"outline", "instructor", "video", "qrg">>
Kinds == {KindSeq[i] : i \in DOMAIN KindSeq}
KindIndex(k) == CHOOSE i \in DOMAIN KindSeq : KindSeq[i] = k

ItemFields(k) ==
    CASE k = "outline" -> {"title", "objectives", "durationMinutes"}
      [] k = "instructor" -> {"title", "learningObjectives", "talkingPoints",
                              "suggestedActivities", "timingMinutes"}
      [] k = "video" -> {"title", "narration", "screenDirections", "durationSeconds"}
      [] k = "qrg" -> {"stepNumber", "title", "action", "notes"}

FieldType(x) ==
    CASE x \in {"title", "narration", "screenDirections", "action"} -> "str"
      [] x \in {"objectives", "learningObjectives", "talkingPoints",
                "suggestedActivities"} -> "strlist"
      [] x \in {"durationMinutes", "timingMinutes", "durationSeconds"} -> "optint"
      [] x = "stepNumber" -> "int"
      [] x = "notes" -> "optstr"

\* pydantic's validation of one field: required fields have no default
FieldOk(ty, v) ==
    CASE ty = "str" -> v.t = "str"
      [] ty = "int" -> v.t = "int"
      [] ty = "strlist" -> v.t \in {"missing", "list"}
      [] ty = "optint" -> v.t \in {"missing", "null", "int"}
      [] ty = "optstr" -> v.t \in {"missing", "null", "str"}

FieldOut(ty, v) ==
    IF v.t # "missing" THEN v
    ELSE IF ty = "strlist" THEN JList(<<>>) ELSE JNull

ItemOk(k, it) == it.t = "dict" /\ \A x \in ItemFields(k) : FieldOk(FieldType(x), it.f[x])
ItemOut(k, it) == [x \in ItemFields(k) |-> FieldOut(FieldType(x), it.f[x])]

\* an artifact: its title (title / courseTitle) and its nested list
\* (sections / segments / steps); None_ is Python's None
None_ == [null |-> TRUE, title |-> "", items |-> <<>>]
Artifact(title, items) == [null |-> FALSE, title |-> title, items |-> items]

\* <Model>.parse_obj(parsed): a ValidationError is ok = FALSE
parse_obj(k, j) ==
    IF /\ j.t = "object"
       /\ FieldOk("str", j.title)
       /\ j.items.t \in {"missing", "list"}
       /\ \A i \in DOMAIN j.items.l : ItemOk(k, j.items.l[i])
    THEN [ok |-> TRUE,
          value |-> Artifact(j.title.s, [i \in DOMAIN j.items.l |-> ItemOut(k, j.items.l[i])])]
    ELSE [ok |-> FALSE, value |-> None_]

(***************************************************************************)
(* backend/services/llm.py: the fallback templates                         *)
(***************************************************************************)
FallbackItems(k) ==
    CASE k = "outline" ->
           << [title |-> JStr("Introduction"),
               objectives |-> JList(<<"Understand goals", "Set expectations">>),
               durationMinutes |-> JInt(10)],
              [title |-> JStr("Core Concepts"),
               objectives |-> JList(<<"Learn the basics", "Review examples">>),
               durationMinutes |-> JInt(30)] >>
      [] k = "instructor" ->
           << [title |-> JStr("Kickoff"),
               learningObjectives |-> JList(<<"Establish rapport", "Preview agenda">>),
               talkingPoints |-> JList(<<"Welcome participants", "Share outcomes">>),
               suggestedActivities |-> JList(<<"Icebreaker question">>),
               timingMinutes |-> JInt(5)],
              [title |-> JStr("Hands-on Walkthrough"),
               learningObjectives |-> JList(<<"Practice workflow">>),
               talkingPoints |-> JList(<<"Demonstrate key steps", "Highlight pitfalls">>),
               suggestedActivities |-> JList(<<"Live demo", "Group exercise">>),
               timingMinutes |-> JInt(25)] >>
      [] k = "video" ->
           << [title |-> JStr("Scene 1 - Overview"),
               narration |-> JStr("Welcome to the training. In this lesson, we'll cover the essentials."),
               screenDirections |-> JStr("Show title slide, slow zoom, then fade to dashboard."),
               durationSeconds |-> JInt(45)],
              [title |-> JStr("Scene 2 - Doing the Work"),
               narration |-> JStr("Click on 'Create' to start a new project and fill in the details."),
               screenDirections |-> JStr("Capture cursor clicking Create, highlight form fields, zoom on Save button."),
               durationSeconds |-> JInt(75)] >>
      [] k = "qrg" ->
           << [stepNumber |-> JInt(1),
               title |-> JStr("Set Up"),
               action |-> JStr("Open the application and sign in with your credentials."),
               notes |-> JStr("Use SSO when available.")],
              [stepNumber |-> JInt(2),
               title |-> JStr("Create Item"),
               action |-> JStr("Click 'Create', enter required fields, and press Save."),
               notes |-> JStr("Fields marked * are mandatory.")] >>

\* the template titled with course title and class type, as generator.py's
\* failure path titles its outline
FallbackWithClassType(k, a) ==
    Artifact(a.course_title \o " (" \o a.class_type \o ")", FallbackItems(k))

\* a failure path that yields nothing
FallbackNone(k, a) == None_

\* generate_<kind>'s last line: _<kind>_fallback(course_title), of the
\* arguments a = [text, course_title, class_type, api_key] of the call
Fallback(k, a) == Artifact(a.course_title, FallbackItems(k))

(***************************************************************************)
(* backend/services/llm.py: the client and the completion                  *)
(***************************************************************************)
\* Python's None where a string is expected (an absent key, an absent
\* class type), and bool() of such a value
NoKey == "None"
KeyTruthy(key) == key \notin {NoKey, ""}

\* a module-level client that keeps the last override it was configured with
ClientKeyCached(api_key, env) ==
    LET key == IF KeyTruthy(api_key) THEN api_key
               ELSE IF KeyTruthy(past.override) THEN past.override ELSE env
    IN IF KeyTruthy(key) THEN key ELSE NoKey

\* _get_client: the key the client is built with, NoKey when there is no client
ClientKey(api_key, env) ==
    LET key == IF KeyTruthy(api_key) THEN api_key ELSE env
    IN IF KeyTruthy(key) THEN key ELSE NoKey

\* what the remote call does: it raises, or it yields message.content
ReplyError == [t |-> "error", valid |-> FALSE, value |-> PyNone]
ReplyNoContent == [t |-> "nocontent", valid |-> FALSE, value |-> PyNone]
ReplyText(valid, value) == [t |-> "text", valid |-> valid, value |-> value]

\* lines 43-47: content or "{}", json.loads, except Exception: return None
CompletionResult(reply) ==
    CASE reply.t = "error" -> PyNone
      [] reply.t = "nocontent" -> EmptyObject
      [] reply.t = "text" -> IF reply.valid THEN reply.value ELSE PyNone

\* a caller that asks again after a failed completion
NextStateRetrying(p) == IF PyTruthy(p) THEN "PARSING" ELSE "PROMPTING"

\* generate_<kind>: `if parsed:`
NextState(p) == IF PyTruthy(p) THEN "PARSING" ELSE "FALLBACK"

\* the f-string user prompt: the values interpolated into it
UserPrompt(a) == <<a.course_title, a.class_type, a.text>>

(***************************************************************************)
(* The two callers of llm.generate_<kind>                                  *)
(***************************************************************************)
Request(entry, text, title, ctype, key) ==
    [entry |-> entry, extractedText |-> text, courseTitle |-> title,
     classType |-> ctype, openaiApiKey |-> key]

\* pipeline.build_artifacts: four positional arguments
PipelineArgs(r) ==
    [text |-> r.extractedText, course_title |-> r.courseTitle,
     class_type |-> r.classType, api_key |-> r.openaiApiKey]

\* routes/generate.py: three positional arguments, api_key left at its default
RouteArgs(r) ==
    [text |-> r.extractedText, course_title |-> r.courseTitle,
     class_type |-> r.openaiApiKey, api_key |-> NoKey]

CallArgs(r) == IF r.entry = "route" THEN RouteArgs(r) ELSE PipelineArgs(r)

\* GenerateResponse(...): pydantic rejects a None field; build_artifacts lets
\* the error propagate, the route answers 500
NoResponse == [t |-> "none", body |-> [k \in Kinds |-> None_]]
GenerateResponse(entry, arts) ==
    IF \E k \in Kinds : arts[k].null
    THEN [t |-> IF entry = "route" THEN "http500" ELSE "raised",
          body |-> [k \in Kinds |-> None_]]
    ELSE [t |-> "package", body |-> arts]

(***************************************************************************)
(* Inputs                                                                  *)
(***************************************************************************)
Titles == {"Intro to Widgets", "Safety 101"}
Texts == {"Widgets are small mechanical parts...", ""}
ClassTypes == {"Full Class"}
RequestKeys == {NoKey, "sk-request"}
EnvKeys == {NoKey, "sk-env"}
Entries == {"pipeline", "route"}

\* a well-formed nested item that is no template item
GoodItem(k) ==
    Dict([x \in ItemFields(k) |->
            CASE FieldType(x) = "str" -> JStr("Widget basics")
              [] FieldType(x) = "int" -> JInt(1)
              [] OTHER -> Missing])

\* the same item without its required title
BadItem(k) == Dict([GoodItem(k).f EXCEPT !["title"] = Missing])

TemplateRaw(k) == [i \in DOMAIN FallbackItems(k) |-> Dict(FallbackItems(k)[i])]

\* what the model may answer for kind k in a request titled title
Replies(k, title) ==
    { ReplyError,
      ReplyNoContent,
      ReplyText(FALSE, PyNone),
      ReplyText(TRUE, EmptyObject),
      ReplyText(TRUE, JObject(JStr(title), ListOf(TemplateRaw(k)), FALSE)),
      ReplyText(TRUE, JObject(JStr("Widgets in depth"), ListOf(<<GoodItem(k)>>), TRUE)),
      ReplyText(TRUE, JObject(JStr(title), ListOf(<<GoodItem(k), BadItem(k)>>), FALSE)) }

(***************************************************************************)
(* The backend request handler                                             *)
(***************************************************************************)
HistInit ==
    [calls |-> [k \in Kinds |-> 0],
     keyUsed |-> [k \in Kinds |-> NoKey],
     prompt |-> [k \in Kinds |-> <<>>],
     parserInvoked |-> [k \in Kinds |-> FALSE],
     fellBack |-> [k \in Kinds |-> FALSE],
     done |-> [k \in Kinds |-> 0],
     path |-> [k \in Kinds |-> <<"START">>]]

IdleRequest == Request("none", "", "", "", NoKey)

\* the environment's key when the process started, and the last per-request
\* key a client was built with
PastInit(env) == [env0 |-> env, override |-> NoKey]

InitBackend ==
    /\ env_key \in EnvKeys
    /\ phase = "idle"
    /\ req = IdleRequest
    /\ kstate = [k \in Kinds |-> "START"]
    /\ parsed = [k \in Kinds |-> PyNone]
    /\ artifact = [k \in Kinds |-> None_]
    /\ response = NoResponse
    /\ hist = HistInit
    /\ past = PastInit(env_key)

\* a request arrives; a package is created fresh per request
Receive ==
    /\ phase \in {"idle", "returned"}
    /\ \E entry \in Entries, text \in Texts, title \in Titles,
          ctype \in ClassTypes, key \in RequestKeys :
            req' = Request(entry, text, title, ctype, key)
    /\ phase' = "running"
    /\ kstate' = [k \in Kinds |-> "START"]
    /\ parsed' = [k \in Kinds |-> PyNone]
    /\ artifact' = [k \in Kinds |-> None_]
    /\ response' = NoResponse
    /\ hist' = HistInit
    /\ UNCHANGED <<env_key, past>>
    /\ UNCHANGED nonBackendVars

\* the calls are made one after the other, in KindSeq's order
Turn(k) ==
    /\ phase = "running"
    /\ \A j \in Kinds : KindIndex(j) < KindIndex(k) => kstate[j] = "DONE"

\* generate_<kind> is entered and builds its prompts
Start(k) ==
    /\ Turn(k)
    /\ kstate[k] = "START"
    /\ kstate' = [kstate EXCEPT ![k] = "PROMPTING"]
    /\ hist' = [hist EXCEPT !.prompt[k] = UserPrompt(CallArgs(req)),
                            !.path[k] = Append(@, "PROMPTING")]
    /\ UNCHANGED <<env_key, phase, req, parsed, artifact, response, past>>
    /\ UNCHANGED nonBackendVars

\* _structured_completion without a client: no call is made
CompleteNoClient(k) ==
    /\ Turn(k)
    /\ kstate[k] = "PROMPTING"
    /\ ClientKey(CallArgs(req).api_key, env_key) = NoKey
    /\ parsed' = [parsed EXCEPT ![k] = PyNone]
    /\ kstate' = [kstate EXCEPT ![k] = NextState(PyNone)]
    /\ hist' = [hist EXCEPT !.path[k] = Append(@, NextState(PyNone))]
    /\ UNCHANGED <<env_key, phase, req, artifact, response, past>>
    /\ UNCHANGED nonBackendVars

\* _structured_completion with a client: one remote call, then `if parsed:`
Complete(k) ==
    /\ Turn(k)
    /\ kstate[k] = "PROMPTING"
    /\ ClientKey(CallArgs(req).api_key, env_key) # NoKey
    /\ \E reply \in Replies(k, req.courseTitle) :
         LET p == CompletionResult(reply) IN
         /\ parsed' = [parsed EXCEPT ![k] = p]
         /\ kstate' = [kstate EXCEPT ![k] = NextState(p)]
         /\ hist' = [hist EXCEPT
                       !.calls[k] = @ + 1,
                       !.keyUsed[k] = ClientKey(CallArgs(req).api_key, env_key),
                       !.path[k] = Append(@, NextState(p))]
    /\ past' = [past EXCEPT !.override = IF KeyTruthy(CallArgs(req).api_key)
                                         THEN CallArgs(req).api_key ELSE @]
    /\ UNCHANGED <<env_key, phase, req, artifact, response>>
    /\ UNCHANGED nonBackendVars

\* try: return <Model>.parse_obj(parsed); except Exception: pass
Parse(k) ==
    /\ Turn(k)
    /\ kstate[k] = "PARSING"
    /\ LET r == parse_obj(k, parsed[k])
           to == IF r.ok THEN "DONE" ELSE "FALLBACK" IN
       /\ artifact' = [artifact EXCEPT ![k] = IF r.ok THEN r.value ELSE @]
       /\ kstate' = [kstate EXCEPT ![k] = to]
       /\ hist' = [hist EXCEPT !.parserInvoked[k] = TRUE,
                               !.done[k] = IF r.ok THEN @ + 1 ELSE @,
                               !.path[k] = Append(@, to)]
    /\ UNCHANGED <<env_key, phase, req, parsed, response, past>>
    /\ UNCHANGED nonBackendVars

\* return _<kind>_fallback(course_title)
FallBack(k) ==
    /\ Turn(k)
    /\ kstate[k] = "FALLBACK"
    /\ artifact' = [artifact EXCEPT ![k] = Fallback(k, CallArgs(req))]
    /\ kstate' = [kstate EXCEPT ![k] = "DONE"]
    /\ hist' = [hist EXCEPT !.fellBack[k] = TRUE,
                            !.done[k] = @ + 1,
                            !.path[k] = Append(@, "DONE")]
    /\ UNCHANGED <<env_key, phase, req, parsed, response, past>>
    /\ UNCHANGED nonBackendVars

\* return GenerateResponse(classOutline=..., ...)
Return ==
    /\ phase = "running"
    /\ \A k \in Kinds : kstate[k] = "DONE"
    /\ response' = GenerateResponse(req.entry, artifact)
    /\ phase' = "returned"
    /\ UNCHANGED <<env_key, req, kstate, parsed, artifact, hist, past>>
    /\ UNCHANGED nonBackendVars

NextBackend ==
    \/ Receive
    \/ \E k \in Kinds : Start(k)
    \/ \E k \in Kinds : CompleteNoClient(k)
    \/ \E k \in Kinds : Complete(k)
    \/ \E k \in Kinds : Parse(k)
    \/ \E k \in Kinds : FallBack(k)
    \/ Return

(***************************************************************************)
(* generator/generator.py: Python's conversions                            *)
(***************************************************************************)
\* a string together with its characters, for list(<str>)
JText(x, chars) == [t |-> "str", n |-> 0, s |-> x, l |-> chars]

Ok(v) == [ok |-> TRUE, v |-> v]
Raise == [ok |-> FALSE, v |-> Missing]

\* bool(v) of a field value
FieldTruthy(v) ==
    CASE v.t \in {"missing", "null"} -> FALSE
      [] v.t = "int" -> v.n # 0
      [] v.t = "str" -> v.s # ""
      [] v.t = "list" -> v.l # <<>>

RECURSIVE ReprJoin(_)
ReprJoin(xs) ==
    IF xs = <<>> THEN ""
    ELSE IF Len(xs) = 1 THEN "'" \o xs[1] \o "'"
    ELSE "'" \o xs[1] \o "', " \o ReprJoin(Tail(xs))

\* str(v)
PyStr(v) ==
    CASE v.t = "str" -> v
      [] v.t = "null" -> JStr("None")
      [] v.t = "int" -> JStr(ToString(v.n))
      [] v.t = "list" -> JStr("[" \o ReprJoin(v.l) \o "]")

\* list(v or []): TypeError for a truthy value that is not iterable
PyListOrEmpty(v) ==
    IF ~FieldTruthy(v) THEN Ok(JList(<<>>))
    ELSE IF v.t = "int" THEN Raise
    ELSE Ok(JList(v.l))

\* int(v): ValueError for a string that is no number, TypeError for None
\* and for a list
MaxDecimal == 9
PyInt(v) ==
    CASE v.t = "int" -> Ok(v)
      [] v.t = "str" ->
           IF \E i \in 0..MaxDecimal : ToString(i) = v.s
           THEN Ok(JInt(CHOOSE i \in 0..MaxDecimal : ToString(i) = v.s))
           ELSE Raise
      [] OTHER -> Raise

(***************************************************************************)
(* generator/generator.py: the parsers                                     *)
(***************************************************************************)
GenItemFields(k) ==
    CASE k = "outline" -> {"title", "objectives", "duration_minutes", "subtopics"}
      [] k = "instructor" -> {"title", "learning_objectives", "instructional_steps",
                              "key_points", "estimated_time_minutes"}
      [] k = "video" -> {"title", "narration", "screen_directions",
                         "approx_duration_seconds"}
      [] k = "qrg" -> {"step_number", "title", "action", "notes"}

\* how the item's constructor call reads field x
GenFieldOp(x) ==
    CASE x \in {"title", "narration", "screen_directions", "action"} -> "str"
      [] x \in {"objectives", "subtopics", "learning_objectives",
                "instructional_steps", "key_points"} -> "list"
      [] x = "step_number" -> "int"
      [] OTHER -> "get"

GenStrDefault(k, x) ==
    IF x # "title" THEN ""
    ELSE CASE k = "outline" -> "Untitled Section"
           [] k = "instructor" -> "Untitled Topic"
           [] k = "video" -> "Untitled Segment"
           [] k = "qrg" -> "Step"

\* one keyword argument of the constructor call; n = len(steps) so far
BuildField(k, x, it, n) ==
    LET v == it.f[x] IN
    CASE GenFieldOp(x) = "str" ->
           Ok(IF v.t = "missing" THEN JStr(GenStrDefault(k, x)) ELSE PyStr(v))
      [] GenFieldOp(x) = "list" -> PyListOrEmpty(v)
      [] GenFieldOp(x) = "int" ->
           IF v.t = "missing" THEN Ok(JInt(n + 1)) ELSE PyInt(v)
      [] GenFieldOp(x) = "get" -> Ok(IF v.t = "missing" THEN JNull ELSE v)

\* the body of the try: item.get raises AttributeError on anything but a dict
BuildItem(k, it, n) ==
    IF it.t = "dict" /\ \A x \in GenItemFields(k) : BuildField(k, x, it, n).ok
    THEN [ok |-> TRUE, value |-> [x \in GenItemFields(k) |-> BuildField(k, x, it, n).v]]
    ELSE [ok |-> FALSE, value |-> [x \in GenItemFields(k) |-> Missing]]

\* for item in data: try: append(...) except Exception: continue
RECURSIVE ParseItems(_, _, _, _)
ParseItems(k, data, i, acc) ==
    IF i > Len(data) THEN acc
    ELSE LET r == BuildItem(k, data[i], Len(acc)) IN
         ParseItems(k, data, i + 1, IF r.ok THEN Append(acc, r.value) ELSE acc)

\* the same loop leaving at the first item that raises
RECURSIVE ParseItemsBreak(_, _, _, _)
ParseItemsBreak(k, data, i, acc) ==
    IF i > Len(data) THEN acc
    ELSE LET r == BuildItem(k, data[i], Len(acc)) IN
         IF r.ok THEN ParseItemsBreak(k, data, i + 1, Append(acc, r.value)) ELSE acc

LoopUntilFirstRaise(k, data) == ParseItemsBreak(k, data, 1, <<>>)

\* the whole for loop over sections_data / segments_data / steps_data
Loop(k, data) == ParseItems(k, data, 1, <<>>)

\* the top-level keys a parser reads besides its list
GuideStrFields == {"training_plan_and_goals", "target_audience", "prerequisites",
                   "office365_status", "class_type"}
GuideListFields == {"learning_objectives", "required_materials_and_equipment",
                    "instructor_setup", "participant_setup", "handouts",
                    "class_checklist_before", "class_checklist_start",
                    "class_checklist_after"}
GenTopFields(k) ==
    CASE k = "outline" -> {"title"}
      [] k = "instructor" -> GuideStrFields \cup GuideListFields
      [] OTHER -> {}

\* a payload: a dict with top-level fields f, the list key's value and
\* possibly keys nobody reads, or something that is no dict
Payload(k, f, items, extra) == [t |-> "dict", f |-> f, items |-> items, extra |-> extra]
NoFields(k) == [x \in GenTopFields(k) |-> Missing]
NonDictPayload(k, tag) == [t |-> tag, f |-> NoFields(k), items |-> NoList, extra |-> FALSE]

\* bool(v) of the list key's value
ListTruthy(v) ==
    CASE v.t \in {"missing", "null"} -> FALSE
      [] v.t = "int" -> v.n # 0
      [] OTHER -> v.l # <<>>

\* sections_data = payload.get(key, []) if isinstance(payload, dict) else []
\* (_parse_instructor_guide: payload.get("sections", []) or [])
ItemsData(k, payload) ==
    IF payload.t # "dict" \/ payload.items.t = "missing" THEN ListOf(<<>>)
    ELSE IF k = "instructor" /\ ~ListTruthy(payload.items) THEN ListOf(<<>>)
    ELSE payload.items

\* iter(v): TypeError for None and for an int
Iterable(v) == v.t \in {"list", "str"}

\* a parsed artifact: its title (Missing where the dataclass has none), its
\* nested list and its front matter
GenArtifact(title, items, front) == [title |-> title, items |-> items, front |-> front]

DefaultTitle(course_title, class_type) == JStr(course_title \o " (" \o class_type \o ")")

\* InstructorGuide(): the dataclass defaults
GuideDefaults ==
    [x \in GuideStrFields \cup GuideListFields |->
        IF x \in GuideStrFields THEN JStr("") ELSE JList(<<>>)]

NoFront == [x \in {} |-> Missing]

\* the assignments after the loop of _parse_instructor_guide
GuideField(x, v) ==
    IF x \in GuideStrFields
    THEN Ok(IF FieldTruthy(v) THEN PyStr(v) ELSE JStr(""))
    ELSE PyListOrEmpty(v)

Parsed(value) == [raised |-> FALSE, value |-> value]
ParseRaised == [raised |-> TRUE, value |-> GenArtifact(Missing, <<>>, NoFront)]

\* _parse_outline, _parse_instructor_guide, _parse_video_script,
\* _parse_quick_reference
GenParse(k, payload, course_title, class_type) ==
    IF k = "instructor" /\ payload.t # "dict"
    THEN Parsed(GenArtifact(Missing, <<>>, GuideDefaults))
    ELSE LET data == ItemsData(k, payload) IN
         IF ~Iterable(data) THEN ParseRaised
         ELSE LET items == Loop(k, data.l) IN
              CASE k = "outline" ->
                     Parsed(GenArtifact(
                        IF FieldTruthy(payload.f["title"]) THEN payload.f["title"]
                        ELSE DefaultTitle(course_title, class_type),
                        items, NoFront))
                [] k = "instructor" ->
                     IF \A x \in GenTopFields(k) : GuideField(x, payload.f[x]).ok
                     THEN Parsed(GenArtifact(Missing, items,
                            [x \in GenTopFields(k) |-> GuideField(x, payload.f[x]).v]))
                     ELSE ParseRaised
                [] OTHER -> Parsed(GenArtifact(Missing, items, NoFront))

\* what generate_<kind> returns after an exception
GenDefault(k, course_title, class_type) ==
    CASE k = "outline" -> GenArtifact(DefaultTitle(course_title, class_type), <<>>, NoFront)
      [] k = "instructor" -> GenArtifact(Missing, <<>>, GuideDefaults)
      [] OTHER -> GenArtifact(Missing, <<>>, NoFront)

(***************************************************************************)
(* generator/generator.py: generate_<kind>                                 *)
(***************************************************************************)
MaxItems == 3

GenTitles == {"Intro to Widgets", "Safety 101"}
GenClassTypes == {"Full Class", "Short Video"}
GenKeys == {NoKey, "sk-env"}

CharItem(k) == NonDict("str", GenItemFields(k))
NullItem(k) == NonDict("null", GenItemFields(k))
BareItem(k) == Dict([x \in GenItemFields(k) |-> Missing])
WithField(k, x, v) == Dict([BareItem(k).f EXCEPT ![x] = v])

\* the nested items the model may answer with
GenItems(k) ==
    {NullItem(k), BareItem(k), WithField(k, "title", JText("Pumps", <<"P", "u", "m", "p", "s">>))}
    \cup
    CASE k = "outline" -> {WithField(k, "objectives", JInt(5)),
                           WithField(k, "objectives", JText("ab", <<"a", "b">>))}
      [] k = "instructor" -> {WithField(k, "key_points", JInt(5)),
                              WithField(k, "key_points", JList(<<"Check valves">>))}
      [] k = "video" -> {WithField(k, "narration", JNull),
                         WithField(k, "approx_duration_seconds", JText("abc", <<"a", "b", "c">>))}
      [] k = "qrg" -> {WithField(k, "step_number", JInt(2)),
                       WithField(k, "step_number", JText("abc", <<"a", "b", "c">>)),
                       WithField(k, "step_number", JText("7", <<"7">>))}

GenLists(k) == UNION {[1..n -> GenItems(k)] : n \in 0..MaxItems}

TopWith(k, x, v) == [NoFields(k) EXCEPT ![x] = v]

\* the payloads json.loads may return
GenPayloads(k) ==
    {Payload(k, NoFields(k), ListOf(xs), FALSE) : xs \in GenLists(k)}
    \cup
    {NonDictPayload(k, "none"), NonDictPayload(k, "list"),
     Payload(k, NoFields(k), NoList, FALSE),
     Payload(k, NoFields(k), NoList, TRUE),
     Payload(k, NoFields(k), NullList, FALSE),
     Payload(k, NoFields(k), IntList(0), FALSE),
     Payload(k, NoFields(k), IntList(5), FALSE),
     Payload(k, NoFields(k), StrList(<<CharItem(k), CharItem(k)>>), FALSE)}
    \cup
    CASE k = "outline" ->
           {Payload(k, TopWith(k, "title", JStr("Widgets in depth")), ListOf(<<BareItem(k)>>), TRUE),
            Payload(k, TopWith(k, "title", JNull), NoList, FALSE)}
      [] k = "instructor" ->
           {Payload(k, TopWith(k, "handouts", JInt(5)), ListOf(<<BareItem(k)>>), FALSE),
            Payload(k, TopWith(k, "handouts", JText("ab", <<"a", "b">>)), NoList, FALSE),
            Payload(k, TopWith(k, "target_audience", JNull), NoList, TRUE)}
      [] OTHER -> {}

FailedMessage(k) ==
    CASE k = "outline" -> "Class outline generation failed."
      [] k = "instructor" -> "Instructor guide generation failed."
      [] k = "video" -> "Video script generation failed."
      [] k = "qrg" -> "Quick reference generation failed."

MissingKeyMessage == "OpenAI API key not found."

GenLogInit == [errors |-> <<>>, calls |-> 0, parsed |-> FALSE]
GenNoCall == [kind |-> "none", course_title |-> "", class_type |-> ""]
GenNoPayload == NonDictPayload("video", "none")
GenNoResult == GenArtifact(Missing, <<>>, NoFront)

InitGen ==
    /\ g_key \in GenKeys
    /\ g_pc = "idle"
    /\ g_call = GenNoCall
    /\ g_payload = GenNoPayload
    /\ g_parsed = ParseRaised
    /\ g_result = GenNoResult
    /\ g_log = GenLogInit

\* generate_<kind>(full_text, course_title, class_type) is called
GenEnter ==
    /\ g_pc \in {"idle", "done"}
    /\ \E k \in Kinds, title \in GenTitles, ctype \in GenClassTypes :
         g_call' = [kind |-> k, course_title |-> title, class_type |-> ctype]
    /\ g_pc' = "calling"
    /\ g_payload' = GenNoPayload
    /\ g_parsed' = ParseRaised
    /\ g_result' = GenNoResult
    /\ g_log' = GenLogInit
    /\ UNCHANGED g_key
    /\ UNCHANGED nonGenVars

\* get_client raises MissingOpenAIKeyError: st.error(str(exc)), the default
GenMissingKey ==
    /\ g_pc = "calling"
    /\ ~KeyTruthy(g_key)
    /\ g_log' = [g_log EXCEPT !.errors = Append(@, MissingKeyMessage)]
    /\ g_result' = GenDefault(g_call.kind, g_call.course_title, g_call.class_type)
    /\ g_pc' = "done"
    /\ UNCHANGED <<g_key, g_call, g_payload, g_parsed>>
    /\ UNCHANGED nonGenVars

\* the remote call or json.loads raises: _call_json_response reports and
\* re-raises, generate_<kind> reports and returns the default
GenCallFails ==
    /\ g_pc = "calling"
    /\ KeyTruthy(g_key)
    /\ \E msg \in {"OpenAI API error", "Unexpected OpenAI error"} :
         g_log' = [g_log EXCEPT !.errors = @ \o <<msg, FailedMessage(g_call.kind)>>,
                                !.calls = @ + 1]
    /\ g_result' = GenDefault(g_call.kind, g_call.course_title, g_call.class_type)
    /\ g_pc' = "done"
    /\ UNCHANGED <<g_key, g_call, g_payload, g_parsed>>
    /\ UNCHANGED nonGenVars

\* _call_json_response returns the parsed JSON
GenCallReturns ==
    /\ g_pc = "calling"
    /\ KeyTruthy(g_key)
    /\ g_payload' \in GenPayloads(g_call.kind)
    /\ g_log' = [g_log EXCEPT !.calls = @ + 1]
    /\ g_pc' = "parsing"
    /\ UNCHANGED <<g_key, g_call, g_parsed, g_result>>
    /\ UNCHANGED nonGenVars

\* return _parse_<kind>(payload); except Exception: st.error(...), the default
GenParseStep ==
    /\ g_pc = "parsing"
    /\ LET r == GenParse(g_call.kind, g_payload, g_call.course_title, g_call.class_type) IN
       /\ g_parsed' = r
       /\ g_result' = IF r.raised
                      THEN GenDefault(g_call.kind, g_call.course_title, g_call.class_type)
                      ELSE r.value
       /\ g_log' = [g_log EXCEPT
                       !.parsed = TRUE,
                       !.errors = IF r.raised THEN Append(@, FailedMessage(g_call.kind)) ELSE @]
    /\ g_pc' = "done"
    /\ UNCHANGED <<g_key, g_call, g_payload>>
    /\ UNCHANGED nonGenVars

NextGen ==
    \/ GenEnter
    \/ GenMissingKey
    \/ GenCallFails
    \/ GenCallReturns
    \/ GenParseStep

(***************************************************************************)
(* generator/batch_processor.py: strings as their characters               *)
(***************************************************************************)
\* \s and \w over the characters of the inputs
IsSpace(c) == c \in {" ", "\n"}
IsWord(c) == c \in {"P", "A", "N", "p", "u", "m", "a", "n", "o", "e", "_",
                    "0", "1", "2", "3", "4", "5", "6", "7", "8", "9"}

\* str.lower of one character
Lower(c) ==
    CASE c = "P" -> "p"
      [] c = "A" -> "a"
      [] c = "N" -> "n"
      [] OTHER -> c

RECURSIVE LStrip(_)
LStrip(cs) == IF cs # <<>> /\ IsSpace(cs[1]) THEN LStrip(Tail(cs)) ELSE cs

RECURSIVE RStrip(_)
RStrip(cs) ==
    IF cs # <<>> /\ IsSpace(cs[Len(cs)]) THEN RStrip(SubSeq(cs, 1, Len(cs) - 1)) ELSE cs

\* str.strip()
PyStrip(cs) == RStrip(LStrip(cs))

\* value[:n]
Take(cs, n) == SubSeq(cs, 1, IF Len(cs) < n THEN Len(cs) ELSE n)

\* re.sub(r'[^\w\s-]', '', value): the characters that stay
SlugKeeps(c) == IsWord(c) \/ IsSpace(c) \/ c = "-"

IsSeparator(c) == IsSpace(c) \/ c = "-"

RECURSIVE SkipSeparators(_)
SkipSeparators(cs) ==
    IF cs # <<>> /\ IsSeparator(cs[1]) THEN SkipSeparators(Tail(cs)) ELSE cs

\* re.sub(r'[-\s]+', '-', value)
RECURSIVE CollapseSeparators(_)
CollapseSeparators(cs) ==
    IF cs = <<>> THEN <<>>
    ELSE IF IsSeparator(cs[1]) THEN <<"-">> \o CollapseSeparators(SkipSeparators(cs))
    ELSE <<cs[1]>> \o CollapseSeparators(Tail(cs))

\* slugify(value), value already str(value)
slugify(cs) ==
    LET kept == PyStrip(SelectSeq(cs, SlugKeeps))
        lowered == [i \in DOMAIN kept |-> Lower(kept[i])]
    IN CollapseSeparators(lowered)

(***************************************************************************)
(* generator/batch_processor.py: the rows                                  *)
(***************************************************************************)
REQUIRED_HEADERS == {"#", "video_file", "est_duration", "brief_description"}

\* a cell of a row: a string, None (csv.DictReader's restval for a short
\* row), or no such key in the dict
Cell(cs) == [t |-> "str", s |-> cs]
NoneCell == [t |-> "null", s |-> <<>>]
NoCell == [t |-> "missing", s |-> <<>>]

\* str(value) of a cell that is there
CellStr(c) == IF c.t = "null" THEN <<"N", "o", "n", "e">> ELSE c.s

\* row.get(key, default)
RowGet(row, key, default) == IF row[key].t = "missing" THEN Cell(default) ELSE row[key]

\* csv.DictReader: every fieldname is a key of every row, None where the
\* line was short
DictRow(row) == [h \in REQUIRED_HEADERS |-> IF row[h].t = "missing" THEN NoneCell ELSE row[h]]

\* the f-string of line 68: row['#'] and row['brief_description'][:30]
LabelRaises(row) ==
    \/ row["#"].t = "missing"
    \/ row["brief_description"].t \in {"missing", "null"}

\* line 70: row.get('#', '000').strip()
ClassNumberRaises(row) == row["#"].t = "null"
ClassNumber(row) == PyStrip(RowGet(row, "#", <<"0", "0", "0">>).s)

\* lines 71 and 80: slugify(description)[:30]
SlugLimit == 30
Description(row) == RowGet(row, "brief_description", <<>>)
Slug(row) == Take(slugify(CellStr(Description(row))), SlugLimit)

\* line 81: f"Class_{class_number}_{slug}"
FolderName(row) ==
    <<"C", "l", "a", "s", "s", "_">> \o ClassNumber(row) \o <<"_">> \o Slug(row)

\* i / total, and the literal 1.0
BatchFractionAfterRow(i, total) == [num |-> i + 1, den |-> total]
BatchFraction(i, total) == [num |-> i, den |-> total]
One == [num |-> 1, den |-> 1]
BelowOne(f) == f.num < f.den

\* an archive entry: the row it was written for, its folder and its name
Entry(i, row, name) == [row |-> i, folder |-> FolderName(row), name |-> name]

\* synthesize_narration_audio: one file per segment whose narration is not
\* blank, the audio or the error text
AudioName(idx, ok) ==
    IF ok THEN "Audio/segment_" \o ToString(idx) \o ".wav"
    ELSE "Audio/segment_" \o ToString(idx) \o "_ERROR.txt"

Spoken(script) == {idx \in DOMAIN script : PyStrip(script[idx]) # <<>>}

RECURSIVE AudioEntries(_, _, _, _, _)
AudioEntries(i, row, script, tts, idx) ==
    IF idx > Len(script) THEN <<>>
    ELSE (IF idx \in Spoken(script) THEN <<Entry(i, row, AudioName(idx, tts[idx]))>> ELSE <<>>)
         \o AudioEntries(i, row, script, tts, idx + 1)

(***************************************************************************)
(* generator/batch_processor.py: parse_csv and process_batch               *)
(***************************************************************************)
MaxRows == 3

GoodRow(i) ==
    [h \in REQUIRED_HEADERS |->
        CASE h = "#" -> Cell(<<ToString(i)>>)
          [] h = "video_file" -> Cell(<<"a", "_", "1">>)
          [] h = "est_duration" -> Cell(<<"5">>)
          [] h = "brief_description" -> Cell(<<"P", "u", "m", "p", " ", "-", "A", "!">>)]

\* the rows a caller may pass at position i; a row after the first may
\* repeat the number of the row before it
RowShapes(i) ==
    { GoodRow(i),
      [GoodRow(i) EXCEPT !["brief_description"] = Cell(<<>>)],
      [GoodRow(i) EXCEPT !["est_duration"] = NoCell],
      [GoodRow(i) EXCEPT !["#"] = NoCell] }
        \cup (IF i > 1 THEN {GoodRow(i - 1)} ELSE {})

Batches ==
    UNION { {rows \in [1..n -> UNION {RowShapes(i) : i \in 1..n}] :
                \A i \in 1..n : rows[i] \in RowShapes(i)} : n \in 0..MaxRows }

\* the lines of a CSV file: complete ones and ones that end before the
\* description (the last column)
CsvLines(i) == {GoodRow(i), [GoodRow(i) EXCEPT !["brief_description"] = NoCell]}

CsvFiles ==
    UNION { {lines \in [1..n -> UNION {CsvLines(i) : i \in 1..n}] :
                \A i \in 1..n : lines[i] \in CsvLines(i)} : n \in 0..MaxRows }

\* the narrations of the segments generate_video_script may return
BatchScripts == { <<>>, << <<" ">>, <<"P", "u", "m", "p">> >> }

BatchLogInit == [gen |-> 0, raised_at |-> 0, csv |-> FALSE]

InitBatch ==
    /\ b_key \in GenKeys
    /\ b_cb \in BOOLEAN
    /\ b_rows = <<>>
    /\ b_pc = "idle"
    /\ b_i = 0
    /\ b_script = <<>>
    /\ b_zip = <<>>
    /\ b_progress = <<>>
    /\ b_log = BatchLogInit

\* parse_csv(file_buffer): a missing column is a ValueError, otherwise the
\* rows of the reader
ParseCsv ==
    /\ b_pc = "idle"
    /\ \E dropped \in REQUIRED_HEADERS \cup {"none"}, lines \in CsvFiles :
         IF dropped # "none"
         THEN b_pc' = "rejected" /\ b_rows' = <<>>
         ELSE b_pc' = "parsed" /\ b_rows' = [i \in DOMAIN lines |-> DictRow(lines[i])]
    /\ b_log' = [b_log EXCEPT !.csv = TRUE]
    /\ UNCHANGED <<b_key, b_cb, b_i, b_script, b_zip, b_progress>>
    /\ UNCHANGED nonBatchVars

\* process_batch(rows, progress_callback) is called, with the rows of
\* parse_csv or with rows of the caller's own; lines 61-64
ProcessBatch ==
    /\ \/ b_pc = "parsed" /\ b_rows' = b_rows
       \/ b_pc = "idle" /\ b_rows' \in Batches
    /\ b_pc' = "loop"
    /\ b_i' = 0
    /\ UNCHANGED <<b_key, b_cb, b_script, b_zip, b_progress, b_log>>
    /\ UNCHANGED nonBatchVars

\* lines 66-81: the progress call for row i and the row's folder name
RowBegin ==
    /\ b_pc = "loop"
    /\ b_i < Len(b_rows)
    /\ LET row == b_rows[b_i + 1] IN
       IF b_cb /\ LabelRaises(row)
       THEN /\ b_pc' = "raised"
            /\ b_log' = [b_log EXCEPT !.raised_at = b_i + 1]
            /\ UNCHANGED b_progress
       ELSE /\ b_progress' = IF b_cb THEN Append(b_progress, BatchFraction(b_i, Len(b_rows)))
                             ELSE b_progress
            /\ IF ClassNumberRaises(row)
               THEN b_pc' = "raised" /\ b_log' = [b_log EXCEPT !.raised_at = b_i + 1]
               ELSE b_pc' = "outline" /\ UNCHANGED b_log
    /\ UNCHANGED <<b_key, b_cb, b_rows, b_i, b_script, b_zip>>
    /\ UNCHANGED nonBatchVars

\* lines 93-102: generate_class_outline and its markdown
RowOutline ==
    /\ b_pc = "outline"
    /\ b_log' = [b_log EXCEPT !.gen = @ + 1]
    /\ b_zip' = Append(b_zip, Entry(b_i + 1, b_rows[b_i + 1], "class_outline.md"))
    /\ b_pc' = "script"
    /\ UNCHANGED <<b_key, b_cb, b_rows, b_i, b_script, b_progress>>
    /\ UNCHANGED nonBatchVars

\* lines 105-113: generate_video_script (without a key its failure value)
\* and its markdown
RowScript ==
    /\ b_pc = "script"
    /\ IF KeyTruthy(b_key)
       THEN b_script' \in BatchScripts
       ELSE b_script' = GenDefault("video", "", "").items
    /\ b_log' = [b_log EXCEPT !.gen = @ + 1]
    /\ b_zip' = Append(b_zip, Entry(b_i + 1, b_rows[b_i + 1], "video_script.md"))
    /\ b_pc' = "audio"
    /\ UNCHANGED <<b_key, b_cb, b_rows, b_i, b_progress>>
    /\ UNCHANGED nonBatchVars

\* lines 117-120: synthesize_narration_audio; get_client raises without a
\* key, a failed synthesis of one segment is written as an error file
RowAudio ==
    /\ b_pc = "audio"
    /\ IF ~KeyTruthy(b_key)
       THEN /\ b_pc' = "raised"
            /\ b_log' = [b_log EXCEPT !.raised_at = b_i + 1]
            /\ UNCHANGED <<b_i, b_zip>>
       ELSE /\ \E tts \in [DOMAIN b_script -> BOOLEAN] :
                 /\ \A idx \in DOMAIN b_script : idx \notin Spoken(b_script) => tts[idx]
                 /\ b_zip' = b_zip \o AudioEntries(b_i + 1, b_rows[b_i + 1], b_script, tts, 1)
            /\ b_i' = b_i + 1
            /\ b_pc' = "loop"
            /\ UNCHANGED b_log
    /\ UNCHANGED <<b_key, b_cb, b_rows, b_script, b_progress>>
    /\ UNCHANGED nonBatchVars

\* lines 122-126: the last progress call and the archive's bytes
BatchFinish ==
    /\ b_pc = "loop"
    /\ b_i = Len(b_rows)
    /\ b_progress' = IF b_cb THEN Append(b_progress, One) ELSE b_progress
    /\ b_pc' = "returned"
    /\ UNCHANGED <<b_key, b_cb, b_rows, b_i, b_script, b_zip, b_log>>
    /\ UNCHANGED nonBatchVars

NextBatch ==
    \/ ParseCsv
    \/ ProcessBatch
    \/ RowBegin
    \/ RowOutline
    \/ RowScript
    \/ RowAudio
    \/ BatchFinish

(***************************************************************************)
(* app.py: the generation flow's source aggregation.  A text is the        *)
(* sequence of its tokens: a whitespace character, or a run of the text    *)
(* that holds no leading or trailing whitespace.                           *)
(***************************************************************************)
SourceHeader == "[Source: doc.txt]"
TranscriptHeader == "[Audio Transcript]"
NotesHeader == "=== Additional notes from instructor (handwritten) ==="
NoSourceText == "No usable source text was extracted. Create a generic but reasonable training package based only on the course title and class type."

\* sep.join(parts)
RECURSIVE Join(_, _)
Join(parts, sep) ==
    IF parts = <<>> THEN <<>>
    ELSE IF Len(parts) = 1 THEN parts[1]
    ELSE parts[1] \o sep \o Join(Tail(parts), sep)

\* bool(text) of a str
TextTruthy(text) == text # <<>>

\* file_processing.extract_text_from_files, of the texts read from the files
\* (a file that cannot be read gives "")
RECURSIVE ExtractedSections(_)
ExtractedSections(files) ==
    IF files = <<>> THEN <<>>
    ELSE (IF TextTruthy(files[1]) THEN << <<SourceHeader, "\n">> \o files[1] >> ELSE <<>>)
         \o ExtractedSections(Tail(files))

extract_text_from_files(files) == Join(ExtractedSections(files), <<"\n", "\n">>)

\* audio_processing.transcribe_audio_files, of the texts the transcription
\* returns (a failed transcription appends nothing)
transcribe_audio_files(key, texts) ==
    IF texts = <<>> \/ ~KeyTruthy(key) THEN <<>>
    ELSE Join(SelectSeq(texts, TextTruthy), <<"\n">>)

\* lines 399-408
CombinedText(document_text, transcript_text) ==
    PyStrip(Join((IF TextTruthy(document_text) THEN <<document_text>> ELSE <<>>)
                 \o (IF TextTruthy(transcript_text)
                     THEN << <<TranscriptHeader, "\n">> \o transcript_text >> ELSE <<>>),
                 <<"\n", "\n">>))

\* lines 410-425
WithNotes(full_text, notes) ==
    LET notes_text == PyStrip(notes) IN
    IF ~TextTruthy(notes_text) THEN full_text
    ELSE IF TextTruthy(full_text)
         THEN full_text \o <<"\n", "\n", NotesHeader, "\n">> \o notes_text
         ELSE <<NotesHeader, "\n">> \o notes_text

\* lines 427-432
OrNoSourceText(full_text) == IF TextTruthy(full_text) THEN full_text ELSE <<NoSourceText>>

\* the full_text handed to the generators
Aggregate(document_text, transcript_text, notes) ==
    OrNoSourceText(WithNotes(CombinedText(document_text, transcript_text), notes))

MaxFiles == 2

\* what one uploaded file may hold, what a transcription may return
FileTexts == { <<>>, <<" ">>, <<"Widgets are small parts.">> }
FileLists == UNION {[1..n -> FileTexts] : n \in 0..MaxFiles}

\* what session_state.handwritten_notes_text may hold
NoteTexts == { <<>>, <<" ", "\n">>, <<" ", "Check the valves.", " ">> }

AppTitles == {"", "Intro to Widgets"}

AppNoInput == [title |-> "", docs |-> <<>>, audio |-> <<>>, notes |-> <<>>]

InitApp ==
    /\ app_key \in GenKeys
    /\ app_notes = <<>>
    /\ app_pc = "idle"
    /\ app_in = AppNoInput
    /\ app_text = <<>>

\* "Extract text from notes", or an edit of the text area shown while the
\* notes are not empty (lines 325-343)
SetNotes ==
    /\ app_notes' \in NoteTexts
    /\ app_notes' # app_notes
    /\ UNCHANGED <<app_key, app_pc, app_in, app_text>>
    /\ UNCHANGED nonAppVars

\* "Clear notes" (lines 331-335)
ClearNotes ==
    /\ TextTruthy(app_notes)
    /\ app_notes' = <<>>
    /\ UNCHANGED <<app_key, app_pc, app_in, app_text>>
    /\ UNCHANGED nonAppVars

\* "Generate Training Package" (lines 378-459); the flow of one click is
\* followed
Generate ==
    /\ app_pc = "idle"
    /\ \E title \in AppTitles, docs \in FileLists, audio \in FileLists :
         /\ app_in' = [title |-> title, docs |-> docs, audio |-> audio, notes |-> app_notes]
         /\ IF title = ""
            THEN app_pc' = "no_title" /\ app_text' = <<>>
            ELSE IF docs = <<>> /\ audio = <<>> /\ ~TextTruthy(PyStrip(app_notes))
            THEN app_pc' = "no_source" /\ app_text' = <<>>
            ELSE /\ app_pc' = "generated"
                 /\ app_text' = Aggregate(extract_text_from_files(docs),
                                          transcribe_audio_files(app_key, audio),
                                          app_notes)
    /\ UNCHANGED <<app_key, app_notes>>
    /\ UNCHANGED nonAppVars

NextApp ==
    \/ ClearNotes
    \/ SetNotes
    \/ Generate

(***************************************************************************)
(* generator/markdown_utils.py and generator/markdown_export.py: an        *)
(* artifact of generator/models.py to the lines of its markdown            *)
(***************************************************************************)
MdModules == {"markdown_utils", "markdown_export"}

\* `if <list>:` a label, one bullet per entry and an empty line
ListBlock(label, bullet, v) ==
    IF FieldTruthy(v) THEN <<label>> \o [i \in DOMAIN v.l |-> bullet \o v.l[i]] \o <<"">>
    ELSE <<>>

\* `if <int>:` a line with the number and an empty line
TimeBlock(label, v, unit) ==
    IF FieldTruthy(v) THEN <<label \o ToString(v.n) \o unit, "">> ELSE <<>>

\* str.strip() of the guide's texts
StripText(x) == IF x = " New hires " THEN "New hires" ELSE x

\* `if guide.<text>:` a heading, the stripped text and an empty line
TextBlock(heading, v) == IF FieldTruthy(v) THEN <<heading, StripText(v.s), "">> ELSE <<>>

\* markdown_utils.instructor_guide_to_markdown, lines 38-134 (the dashes of
\* the two setup headings are written as hyphens)
GuideFrontLines(f) ==
    TextBlock("## Training plan and goals", f["training_plan_and_goals"])
    \o TextBlock("## Target audience", f["target_audience"])
    \o TextBlock("## Prerequisites", f["prerequisites"])
    \o TextBlock("## Office 365 status", f["office365_status"])
    \o (IF FieldTruthy(f["learning_objectives"])
        THEN <<"## Learning objectives",
               "By the end of the session, participants will be able to:", "">>
             \o [i \in DOMAIN f["learning_objectives"].l |->
                    "1. " \o f["learning_objectives"].l[i]]
             \o <<"">>
        ELSE <<>>)
    \o (IF \E x \in {"required_materials_and_equipment", "instructor_setup",
                     "participant_setup", "handouts"} : FieldTruthy(f[x])
        THEN <<"## Preparation and course setup">>
             \o ListBlock("### Required materials and equipment", "- ",
                          f["required_materials_and_equipment"])
             \o ListBlock("### Setup - instructor", "- ", f["instructor_setup"])
             \o ListBlock("### Setup - participants", "- ", f["participant_setup"])
             \o ListBlock("### Handouts (optional)", "- ", f["handouts"])
        ELSE <<>>)
    \o TextBlock("## Type of class", f["class_type"])
    \o (IF \E x \in {"class_checklist_before", "class_checklist_start",
                     "class_checklist_after"} : FieldTruthy(f[x])
        THEN <<"## Class checklist">>
             \o ListBlock("**Before class:**", "- ", f["class_checklist_before"])
             \o ListBlock("**Start of class:**", "- ", f["class_checklist_start"])
             \o ListBlock("**After class:**", "- ", f["class_checklist_after"])
        ELSE <<>>)

\* the attributes the loop body reads that the dataclass of models.py lacks
\* (AttributeError)
MissingAttributes(mod, k) ==
    IF mod = "markdown_export" /\ k = "instructor"
    THEN {"talking_points", "suggested_activities"} \ GenItemFields(k)
    ELSE {}

\* the lines of the idx-th section, segment or step
ItemLines(mod, k, it, idx) ==
    CASE mod = "markdown_utils" /\ k = "outline" ->
           <<"## " \o it["title"].s>>
           \o ListBlock("### Objectives", "- ", it["objectives"])
           \o ListBlock("### Subtopics", "- ", it["subtopics"])
           \o TimeBlock("**Duration:** ", it["duration_minutes"], " minutes")
      [] mod = "markdown_utils" /\ k = "instructor" ->
           <<"### Topic: " \o it["title"].s>>
           \o TimeBlock("**Estimated Time:** ", it["estimated_time_minutes"], " minutes")
           \o ListBlock("**Learning Objectives**", "- ", it["learning_objectives"])
           \o ListBlock("**Instructional Steps:**", "- ", it["instructional_steps"])
           \o ListBlock("**Key Points:**", "- ", it["key_points"])
           \o <<"">>
      [] mod = "markdown_utils" /\ k = "video" ->
           <<"## Segment " \o ToString(idx) \o ": " \o it["title"].s,
             "### Narration", it["narration"].s, "",
             "### Screen Directions", it["screen_directions"].s, "">>
           \o (IF FieldTruthy(it["approx_duration_seconds"])
               THEN <<"**Approx Duration:** " \o ToString(it["approx_duration_seconds"].n)
                      \o " seconds">>
               ELSE <<>>)
           \o <<"">>
      [] mod = "markdown_utils" /\ k = "qrg" ->
           <<"## Step " \o ToString(it["step_number"].n) \o ": " \o it["title"].s,
             "**Action:** " \o it["action"].s>>
           \o (IF FieldTruthy(it["notes"]) THEN <<"**Notes:** " \o it["notes"].s>> ELSE <<>>)
           \o <<"">>
      [] mod = "markdown_export" /\ k = "outline" ->
           <<"## " \o it["title"].s>>
           \o ListBlock("**Objectives:**", "- ", it["objectives"])
           \o ListBlock("**Subtopics:**", "- ", it["subtopics"])
           \o TimeBlock("**Estimated Time:** ", it["duration_minutes"], " minutes")
      [] mod = "markdown_export" /\ k = "instructor" ->
           <<"## " \o it["title"].s>>
           \o ListBlock("**Learning Objectives:**", "- ", it["learning_objectives"])
           \o TimeBlock("**Estimated Time:** ", it["estimated_time_minutes"], " minutes")
      [] mod = "markdown_export" /\ k = "video" ->
           <<"## " \o it["title"].s>>
           \o (IF FieldTruthy(it["narration"])
               THEN <<"**Narration:**", it["narration"].s, "">> ELSE <<>>)
           \o (IF FieldTruthy(it["screen_directions"])
               THEN <<"**Screen Directions:**", it["screen_directions"].s, "">> ELSE <<>>)
           \o TimeBlock("**Approx Duration:** ", it["approx_duration_seconds"], " seconds")
      [] mod = "markdown_export" /\ k = "qrg" ->
           <<"## Step " \o ToString(it["step_number"].n) \o ": " \o it["title"].s,
             it["action"].s>>
           \o (IF FieldTruthy(it["notes"]) THEN <<"", "**Notes:** " \o it["notes"].s>> ELSE <<>>)
           \o <<"">>

RECURSIVE ItemsLines(_, _, _, _)
ItemsLines(mod, k, items, idx) ==
    IF idx > Len(items) THEN <<>>
    ELSE ItemLines(mod, k, items[idx], idx) \o ItemsLines(mod, k, items, idx + 1)

\* the lines before the loop
HeadLines(mod, k, art) ==
    CASE k = "outline" -> <<"# " \o art.title.s, "">>
      [] k = "video" -> <<"# Video Script", "">>
      [] k = "qrg" -> <<"# Quick Reference Guide", "">>
      [] k = "instructor" ->
           <<"# Instructor Guide", "">>
           \o (IF mod = "markdown_utils"
               THEN GuideFrontLines(art.front)
                    \o (IF art.items # <<>> THEN <<"## Instructional framework", "">> ELSE <<>>)
               ELSE <<>>)

\* "\n".join(lines).strip(): the empty lines at both ends go, and the space
\* that ends the last line (no line but an action's label ends with one)
RECURSIVE StripLines(_)
StripLines(lines) ==
    IF lines = <<>> THEN lines
    ELSE IF lines[1] = "" THEN StripLines(Tail(lines))
    ELSE IF lines[Len(lines)] = "" THEN StripLines(SubSeq(lines, 1, Len(lines) - 1))
    ELSE [lines EXCEPT ![Len(lines)] = IF @ = "**Action:** " THEN "**Action:**" ELSE @]

MdRaised == [raised |-> TRUE, lines |-> <<>>]

\* <kind>_to_markdown(artifact) of the module
to_markdown(mod, k, art) ==
    IF art.items # <<>> /\ MissingAttributes(mod, k) # {}
    THEN MdRaised
    ELSE [raised |-> FALSE,
          lines |-> StripLines(HeadLines(mod, k, art) \o ItemsLines(mod, k, art.items, 1))]

MaxSections == 2

\* the values a field of a dataclass may hold, by the way the parsers fill it
MdFieldValues(x) ==
    CASE x = "title" -> {JStr("Pumps")}
      [] x = "step_number" -> {JInt(1)}
      [] x = "notes" -> {JNull, JStr(""), JStr("Wear gloves")}
      [] GenFieldOp(x) = "str" -> {JStr(""), JStr("Open the valve")}
      [] GenFieldOp(x) = "list" -> {JList(<<>>), JList(<<"Check valves">>)}
      [] OTHER -> {JNull, JInt(10)}

MdItems(k) == {it \in [GenItemFields(k) -> UNION {MdFieldValues(x) : x \in GenItemFields(k)}] :
                  \A x \in GenItemFields(k) : it[x] \in MdFieldValues(x)}

FilledFront ==
    [GuideDefaults EXCEPT !["target_audience"] = JStr(" New hires "),
                          !["handouts"] = JList(<<"Checklist">>),
                          !["class_checklist_start"] = JList(<<"Open the room">>)]

\* the artifacts of kind k
MdArtifacts(k) ==
    { GenArtifact(title, items, front) :
        title \in (IF k = "outline" THEN {JStr("Intro to Widgets")} ELSE {Missing}),
        items \in UNION {[1..n -> MdItems(k)] : n \in 0..MaxSections},
        front \in (IF k = "instructor" THEN {GuideDefaults, FilledFront} ELSE {NoFront}) }

MdNoInput == [mod |-> "none", kind |-> "none", artifact |-> GenNoResult]

InitMd ==
    /\ md_in = MdNoInput
    /\ md_out = MdRaised
    /\ md_pc = "idle"

\* an artifact is handed to an exporter
MdCall ==
    /\ md_pc = "idle"
    /\ \E mod \in MdModules, k \in Kinds :
         \E art \in MdArtifacts(k) : md_in' = [mod |-> mod, kind |-> k, artifact |-> art]
    /\ md_out' = MdRaised
    /\ md_pc' = "called"
    /\ UNCHANGED nonMdVars

\* the exporter returns its markdown, or raises
MdReturn ==
    /\ md_pc = "called"
    /\ md_out' = to_markdown(md_in.mod, md_in.kind, md_in.artifact)
    /\ md_pc' = "done"
    /\ UNCHANGED md_in
    /\ UNCHANGED nonMdVars

NextMd ==
    \/ MdCall
    \/ MdReturn


(***************************************************************************)
(* The polling of a render job: heygen_client.wait_for_video               *)
(***************************************************************************)

\* a status payload: the JSON object get_video_status returns; data_status
\* is data.status when the object has a data member, status its own status
NoStatus == "None"
StatusPayload(has_data, data_status, status) ==
    [has_data |-> has_data, data_status |-> data_status, status |-> status]
NoPayload == StatusPayload(FALSE, NoStatus, NoStatus)

\* a Python string (or None) in a boolean context
StatusTruthy(x) == x \notin {NoStatus, ""}

\* status_data.get("data", {}).get("status") or status_data.get("status")
PayloadStatus(p) ==
    IF p.has_data /\ StatusTruthy(p.data_status) THEN p.data_status ELSE p.status

\* status in {"completed", "failed"}
TerminalOrProcessing(status) == status \in {"completed", "failed", "processing"}
Terminal(status) == status \in {"completed", "failed"}

\* time.time() - start > timeout_seconds
TimedOut(elapsed, timeout_seconds) == elapsed > timeout_seconds

WaitResult(kind, payload) == [kind |-> kind, payload |-> payload]
NoWaitResult == WaitResult("none", NoPayload)

\* bounds of the calls explored, in seconds
MaxTimeout == 3
PollIntervals == {1, 2}
PollSeconds == {0, 1}
Statuses == {NoStatus, "", "processing", "pending", "completed", "failed"}
StatusPayloads ==
    {StatusPayload(FALSE, NoStatus, st) : st \in Statuses}
        \cup {StatusPayload(TRUE, ds, st) : ds \in Statuses, st \in {NoStatus, "completed"}}

NoWaitArgs == [poll_interval |-> 0, timeout_seconds |-> 0]

InitWait ==
    /\ w_pc = "idle"
    /\ w_args = NoWaitArgs
    /\ w_elapsed = 0
    /\ w_payload = NoPayload
    /\ w_out = NoWaitResult

\* wait_for_video(video_id, poll_interval=, timeout_seconds=): start = time.time()
WaitCall ==
    /\ w_pc = "idle"
    /\ \E pi \in PollIntervals, ts \in 0..MaxTimeout :
         w_args' = [poll_interval |-> pi, timeout_seconds |-> ts]
    /\ w_elapsed' = 0
    /\ w_pc' = "poll"
    /\ UNCHANGED <<w_payload, w_out>>
    /\ UNCHANGED nonWaitVars

\* get_video_status returns a payload; a terminal status ends the call
WaitPoll ==
    /\ w_pc = "poll"
    /\ \E p \in StatusPayloads, d \in PollSeconds :
         /\ w_payload' = p
         /\ w_elapsed' = w_elapsed + d
         /\ IF Terminal(PayloadStatus(p))
              THEN w_pc' = "done" /\ w_out' = WaitResult("returned", p)
              ELSE w_pc' = "check" /\ UNCHANGED w_out
    /\ UNCHANGED w_args
    /\ UNCHANGED nonWaitVars

\* get_video_status raises HeyGenError: the response was not ok
WaitPollFails ==
    /\ w_pc = "poll"
    /\ \E d \in PollSeconds : w_elapsed' = w_elapsed + d
    /\ w_pc' = "done"
    /\ w_out' = WaitResult("api_error", w_payload)
    /\ UNCHANGED <<w_args, w_payload>>
    /\ UNCHANGED nonWaitVars

\* the timeout test after a poll that was not terminal
WaitCheck ==
    /\ w_pc = "check"
    /\ IF TimedOut(w_elapsed, w_args.timeout_seconds)
         THEN w_pc' = "done" /\ w_out' = WaitResult("timeout", w_payload)
         ELSE w_pc' = "sleep" /\ UNCHANGED w_out
    /\ UNCHANGED <<w_args, w_elapsed, w_payload>>
    /\ UNCHANGED nonWaitVars

\* time.sleep(poll_interval)
WaitSleep ==
    /\ w_pc = "sleep"
    /\ w_elapsed' = w_elapsed + w_args.poll_interval
    /\ w_pc' = "poll"
    /\ UNCHANGED <<w_args, w_payload, w_out>>
    /\ UNCHANGED nonWaitVars

\* the steps the running call takes by itself
WaitStep == WaitPoll \/ WaitCheck \/ WaitSleep

NextWait ==
    \/ WaitCall
    \/ WaitPoll
    \/ WaitPollFails
    \/ WaitCheck
    \/ WaitSleep


(***************************************************************************)
(* The source text of a user prompt.  A text is the sequence of its words  *)
(* and whitespace characters; CharCount is len() of one of them.           *)
(***************************************************************************)
LongWord == "x*5990"         \* a word of 5990 letters
LongerWord == "y*6001"       \* a word of 6001 letters
Placeholder == "... [truncated]"
NoSourceSupplied == "[No source text supplied; rely on general instructional design best practices.]"

CharCount(tok) ==
    CASE tok \in {" ", "\n", "5"} -> 1
      [] tok \in {"are", "min", "the", "===", "N/A"} -> 3
      [] tok \in {"File", "from", "Pump"} -> 4
      [] tok \in {"small", "Video", "notes", "Check"} -> 5
      [] tok \in {"parts.", "basics"} -> 6
      [] tok \in {"Widgets", "valves."} -> 7
      [] tok = "pump.mp4" -> 8
      [] tok \in {"Estimated", "Duration:"} -> 9
      [] tok \in {"Reference:", "Additional", "instructor"} -> 10
      [] tok = "(handwritten)" -> 13
      [] tok = Placeholder -> 15
      [] tok = "Description/Context:" -> 20
      [] tok = NoSourceSupplied -> 79
      [] tok = LongWord -> 5990
      [] tok = LongerWord -> 6001

\* len(text)
RECURSIVE TextLength(_)
TextLength(text) == IF text = <<>> THEN 0 ELSE CharCount(text[1]) + TextLength(Tail(text))

\* text.split()
Words(text) == SelectSeq(text, LAMBDA tok : ~IsSpace(tok))

\* ' '.join(words[:k])
JoinWords(words, k) == Join([i \in 1..k |-> <<words[i]>>], <<" ">>)

\* textwrap.shorten(text, width=width, placeholder="... [truncated]"): the
\* words are taken while they fit the width; when words are left over, words
\* are given back until the placeholder fits behind them (a word longer than
\* the width is cut to fill the line and is the first piece given back)
shorten(text, width) ==
    LET words == Words(text)
        Fits(k) == TextLength(JoinWords(words, k)) <= width
        taken == CHOOSE k \in 0..Len(words) :
                    Fits(k) /\ \A m \in (k + 1)..Len(words) : ~Fits(m)
        Keeps(j) == j = 0 \/ TextLength(JoinWords(words, j)) + CharCount(Placeholder) <= width
        kept == CHOOSE j \in 0..taken : Keeps(j) /\ \A m \in (j + 1)..taken : ~Keeps(m)
    IN IF taken = Len(words) THEN JoinWords(words, taken)
       ELSE JoinWords(words, kept) \o <<Placeholder>>

\* generator._format_source_excerpt
DefaultLimit == 6000
format_source_excerpt(full_text, limit) ==
    IF ~TextTruthy(full_text) THEN <<NoSourceSupplied>> ELSE shorten(full_text, limit)

NotesHeaderWords ==
    <<"===", " ", "Additional", " ", "notes", " ", "from", " ", "instructor", " ",
      "(handwritten)", " ", "===">>

\* generator._build_combined_source_text, notes being what
\* st.session_state.get("handwritten_notes_text", "") returns
build_combined_source_text(full_text, notes) ==
    LET base_text == PyStrip(full_text)
        notes_text == PyStrip(notes)
    IN IF ~TextTruthy(notes_text) THEN base_text
       ELSE IF TextTruthy(base_text)
            THEN base_text \o <<"\n", "\n">> \o NotesHeaderWords \o <<"\n">> \o notes_text
            ELSE NotesHeaderWords \o <<"\n">> \o notes_text

\* generator.generate_<kind>: the excerpt of its user prompt
GeneratorExcerpt(full_text, notes) ==
    format_source_excerpt(build_combined_source_text(full_text, notes), DefaultLimit)

\* process_batch: context_text of a row
context_text(row) ==
    <<"Video", " ", "File", " ", "Reference:", " ">> \o row.video_file \o <<"\n">>
    \o <<"Estimated", " ", "Duration:", " ">> \o row.est_duration \o <<"\n">>
    \o <<"Description/Context:", " ">> \o row.brief_description \o <<"\n">>

\* llm.generate_<kind>: f"Source text:\n{text}"
BackendSourceText(text) == text

\* the texts explored: up to MaxWords words, separated by one space or by a
\* blank line, with or without a space in front
MaxWords == 3
SourceWords == {"Widgets", "are", LongWord, LongerWord}
Spaced(words, sep, lead) == lead \o Join([i \in DOMAIN words |-> <<words[i]>>], sep)
SourceTexts ==
    {Spaced(words, sep, lead) :
        words \in UNION {[1..n -> SourceWords] : n \in 0..MaxWords},
        sep \in {<<" ">>, <<"\n", "\n">>},
        lead \in {<<>>, <<" ">>}}

PromptNotes == {<<>>, <<" ", "\n">>, <<"Check", " ", "the", " ", "valves.", "\n">>}

PromptRows ==
    [video_file : {<<"pump.mp4">>},
     est_duration : {<<"5", " ", "min">>, <<"N/A">>},
     brief_description : {<<>>, <<"Pump", " ", "basics">>}]

NoPrompt == [path |-> "none", text |-> <<>>, notes |-> <<>>]

InitPrompt ==
    /\ p_notes = <<>>
    /\ p_pc = "idle"
    /\ p_in = NoPrompt
    /\ p_out = <<>>

\* the interactive session extracts, edits or clears its handwritten notes
PromptSetNotes ==
    /\ p_pc = "idle"
    /\ p_notes' \in PromptNotes
    /\ p_notes' # p_notes
    /\ UNCHANGED <<p_pc, p_in, p_out>>
    /\ UNCHANGED nonPromptVars

\* generator.generate_<kind>(full_text, ...) called by the app
GeneratorPrompt ==
    /\ p_pc = "idle"
    /\ \E text \in SourceTexts :
         /\ p_in' = [path |-> "generator", text |-> text, notes |-> p_notes]
         /\ p_out' = GeneratorExcerpt(text, p_notes)
    /\ p_pc' = "built"
    /\ UNCHANGED p_notes
    /\ UNCHANGED nonPromptVars

\* process_batch: generate_class_outline(full_text=context_text, ...)
BatchPrompt ==
    /\ p_pc = "idle"
    /\ \E row \in PromptRows :
         /\ p_in' = [path |-> "batch", text |-> context_text(row), notes |-> p_notes]
         /\ p_out' = GeneratorExcerpt(context_text(row), p_notes)
    /\ p_pc' = "built"
    /\ UNCHANGED p_notes
    /\ UNCHANGED nonPromptVars

\* llm.generate_<kind>(text, ...) of the backend service
BackendPrompt ==
    /\ p_pc = "idle"
    /\ \E text \in SourceTexts :
         /\ p_in' = [path |-> "backend", text |-> text, notes |-> p_notes]
         /\ p_out' = BackendSourceText(text)
    /\ p_pc' = "built"
    /\ UNCHANGED p_notes
    /\ UNCHANGED nonPromptVars

NextPrompt ==
    \/ PromptSetNotes
    \/ GeneratorPrompt
    \/ BatchPrompt
    \/ BackendPrompt


(***************************************************************************)
(* The session state of the Streamlit app (app.py).  A package is named by *)
(* the number of the generation that made it, a render job by the number   *)
(* of its submission; 0 is None.  The narration, the status and the URL    *)
(* carry the package or job they came from.                                *)
(***************************************************************************)
NoAudio == [package |-> 0]
NoJobValue == [job |-> 0, value |-> NoStatus]
JobValue(job, value) == [job |-> job, value |-> value]

\* lines 263-269: the setdefault calls of the first script run
SessionDefaults ==
    [generated_package |-> 0,
     tts_payload |-> NoAudio,
     heygen_video_id |-> 0,
     heygen_video_status |-> NoJobValue,
     heygen_video_url |-> NoJobValue]

\* lines 446-459: the generation flow stores package n
AfterGenerationKeepingJob(ss, n) ==
    [ss EXCEPT !.generated_package = n, !.tts_payload = NoAudio]

AfterGeneration(ss, n) ==
    [ss EXCEPT !.generated_package = n,
               !.tts_payload = NoAudio,
               !.heygen_video_id = 0,
               !.heygen_video_status = NoJobValue,
               !.heygen_video_url = NoJobValue]

\* lines 598-602: the narration of the current package's video script
AfterNarration(ss) == [ss EXCEPT !.tts_payload = [package |-> ss.generated_package]]

\* line 556: the id create_avatar_video returned
AfterSubmit(ss, job) == [ss EXCEPT !.heygen_video_id = job]

\* lines 561-566: data = status_data.get("data", status_data);
\* status = data.get("status"); video_url = data.get("video_url") or ...
StoredStatus(payload) == IF payload.has_data THEN payload.data_status ELSE payload.status
AfterWait(ss, job, payload, url) ==
    [ss EXCEPT !.heygen_video_status = JobValue(job, StoredStatus(payload)),
               !.heygen_video_url = JobValue(job, url)]

\* what the last Python value of a session key shows as: if <value>:
Shown(v) == StatusTruthy(v.value)

MaxGenerations == 2
MaxJobs == 2
VideoUrls == {NoStatus, "https://files.heygen.ai/video.mp4"}
HeyGenRejections == {"no_script", "no_api_key", "no_defaults", "submit_failed"}

SessLogInit == [generated |-> 0, narrated |-> FALSE, last |-> "none"]

InitSess ==
    /\ session = SessionDefaults
    /\ s_pc = "idle"
    /\ s_jobs = <<>>
    /\ s_log = SessLogInit

\* "Generate Training Package": the flow runs to line 459
SessGenerate ==
    /\ s_pc = "idle"
    /\ s_log.generated < MaxGenerations
    /\ session' = AfterGeneration(session, s_log.generated + 1)
    /\ s_log' = [s_log EXCEPT !.generated = @ + 1, !.last = "generated"]
    /\ UNCHANGED <<s_pc, s_jobs>>
    /\ UNCHANGED nonSessVars

\* "Generate Training Package" without a title or without a source
\* (lines 379-390): st.error, nothing is stored
SessGenerateRejected ==
    /\ s_pc = "idle"
    /\ s_log' = [s_log EXCEPT !.last = "generate_rejected"]
    /\ s_log' # s_log
    /\ UNCHANGED <<session, s_pc, s_jobs>>
    /\ UNCHANGED nonSessVars

\* "Generate Narration Audio (TTS)", shown while there is a package: the
\* files synthesized (none without an OpenAI key) are stored
SessNarrate ==
    /\ s_pc = "idle"
    /\ session.generated_package # 0
    /\ session' = AfterNarration(session)
    /\ s_log' = [s_log EXCEPT !.narrated = TRUE, !.last = "narrated"]
    /\ UNCHANGED <<s_pc, s_jobs>>
    /\ UNCHANGED nonSessVars

\* synthesize_narration_audio raises (an error that is no OpenAIError): the
\* run ends with the exception, nothing is stored
SessNarrateRaises ==
    /\ s_pc = "idle"
    /\ session.generated_package # 0
    /\ s_log' = [s_log EXCEPT !.last = "narrate_raised"]
    /\ s_log' # s_log
    /\ UNCHANGED <<session, s_pc, s_jobs>>
    /\ UNCHANGED nonSessVars

\* "Generate HeyGen Video" that submits nothing (lines 535-545), or whose
\* create_avatar_video raises (lines 576-579)
SessRenderRejected ==
    /\ s_pc = "idle"
    /\ session.generated_package # 0
    /\ \E why \in HeyGenRejections : s_log' = [s_log EXCEPT !.last = why]
    /\ s_log' # s_log
    /\ UNCHANGED <<session, s_pc, s_jobs>>
    /\ UNCHANGED nonSessVars

\* "Generate HeyGen Video": create_avatar_video returns the id of a new job
\* (lines 547-556), the run goes on to wait_for_video
SessRenderSubmit ==
    /\ s_pc = "idle"
    /\ session.generated_package # 0
    /\ Len(s_jobs) < MaxJobs
    /\ s_jobs' = Append(s_jobs, session.generated_package)
    /\ session' = AfterSubmit(session, Len(s_jobs) + 1)
    /\ s_pc' = "waiting"
    /\ s_log' = [s_log EXCEPT !.last = "submitted"]
    /\ UNCHANGED nonSessVars

\* wait_for_video returns a terminal payload (lines 559-575)
SessRenderReturns ==
    /\ s_pc = "waiting"
    /\ \E payload \in StatusPayloads, url \in VideoUrls :
         /\ Terminal(PayloadStatus(payload))
         /\ session' = AfterWait(session, session.heygen_video_id, payload, url)
    /\ s_pc' = "idle"
    /\ s_log' = [s_log EXCEPT !.last = "rendered"]
    /\ UNCHANGED s_jobs
    /\ UNCHANGED nonSessVars

\* wait_for_video raises HeyGenError, the timeout or a failed poll
\* (lines 576-577): st.error, nothing more is stored
SessRenderRaises ==
    /\ s_pc = "waiting"
    /\ s_pc' = "idle"
    /\ s_log' = [s_log EXCEPT !.last = "render_raised"]
    /\ UNCHANGED <<session, s_jobs>>
    /\ UNCHANGED nonSessVars

NextSess ==
    \/ SessGenerate
    \/ SessGenerateRejected
    \/ SessNarrate
    \/ SessNarrateRaises
    \/ SessRenderRejected
    \/ SessRenderSubmit
    \/ SessRenderReturns
    \/ SessRenderRaises


(***************************************************************************)
(* generator/llm_openai.py: _parse_instructor_guide, the parser behind the *)
(* generate_instructor_guide the generator package exports                 *)
(***************************************************************************)

\* models.InstructorSection: the fields of the dataclass, none with a default
InstructorSectionFields ==
    {"title", "learning_objectives", "instructional_steps", "key_points",
     "estimated_time_minutes"}

\* the keyword arguments of the InstructorSection(...) call, lines 73-79
SectionKeywords ==
    {"title", "learning_objectives", "talking_points", "suggested_activities",
     "estimated_time_minutes"}

\* a dataclass's __init__: TypeError for an unexpected keyword or a missing
\* required field
DataclassAccepts(fields, keywords) == keywords = fields

\* list(item.get(x, []) or []) raises for a truthy value that is no iterable
ListArgRaises(v) == ~PyListOrEmpty(v).ok

\* str(item.get("title", "Untitled Section"))
SectionTitle(item) ==
    IF item.f["title"].t = "missing" THEN JStr("Untitled Section")
    ELSE PyStr(item.f["title"])

\* the keys of a reply's section that _parse_instructor_guide reads
SectionKeys == SectionKeywords

\* one pass of the loop body, lines 71-82: the section appended, or the
\* exception that `continue` follows
OpenAISection(item) ==
    IF \/ item.t # "dict"
       \/ \E x \in SectionKeys \ {"title", "estimated_time_minutes"} : ListArgRaises(item.f[x])
       \/ ~DataclassAccepts(InstructorSectionFields, SectionKeywords)
    THEN Raise
    ELSE Ok(SectionTitle(item))

\* the loop of lines 70-82 over the list
RECURSIVE OpenAISections(_)
OpenAISections(items) ==
    IF items = <<>> THEN <<>>
    ELSE (IF OpenAISection(items[1]).ok THEN <<OpenAISection(items[1]).v>> ELSE <<>>)
         \o OpenAISections(Tail(items))

\* _parse_instructor_guide(payload): payload.sections is the reply's list
\* (`for item in sections_data` raises for a value that cannot be iterated)
OpenAIGuide(raised, sections) == [raised |-> raised, sections |-> sections]
parse_instructor_guide(payload) ==
    IF payload.t = "missing" THEN OpenAIGuide(FALSE, <<>>)
    ELSE IF payload.t \in {"null", "int"} THEN OpenAIGuide(TRUE, <<>>)
    ELSE OpenAIGuide(FALSE, OpenAISections(payload.l))

\* a section of a reply: title, two lists and a time as the prompt asks for
SectionItem(title, time) ==
    Dict([x \in SectionKeys |->
            CASE x = "title" -> title
              [] x = "estimated_time_minutes" -> time
              [] OTHER -> JList(<<>>)])

WellFormedSections ==
    {SectionItem(JStr(t), time) :
        t \in {"Widget basics", "Widget care"}, time \in {Missing, JInt(10)}}

WellFormedSection(item) == item \in WellFormedSections

OpenAIItems ==
    WellFormedSections \cup {NonDict("str", SectionKeys),
                             Dict([SectionItem(JStr("Widget care"), Missing).f
                                      EXCEPT !["learning_objectives"] = JInt(5)])}

OpenAIPayloads ==
    {NoList, NullList} \cup {ListOf(xs) : xs \in UNION {[1..n -> OpenAIItems] : n \in 0..MaxItems}}

InitOpenAI ==
    /\ o_pc = "idle"
    /\ o_payload = NoList
    /\ o_out = OpenAIGuide(FALSE, <<>>)

\* a reply reaches _parse_instructor_guide
OpenAIParseCall ==
    /\ o_pc = "idle"
    /\ o_payload' \in OpenAIPayloads
    /\ o_pc' = "called"
    /\ UNCHANGED o_out
    /\ UNCHANGED nonOpenAIVars

\* the parser returns its guide, or raises
OpenAIParseReturn ==
    /\ o_pc = "called"
    /\ o_out' = parse_instructor_guide(o_payload)
    /\ o_pc' = "done"
    /\ UNCHANGED o_payload
    /\ UNCHANGED nonOpenAIVars

NextOpenAI ==
    \/ OpenAIParseCall
    \/ OpenAIParseReturn

\* the part of the state a specification leaves alone
BackendOff ==
    /\ env_key = NoKey
    /\ phase = "off"
    /\ req = IdleRequest
    /\ kstate = [k \in Kinds |-> "START"]
    /\ parsed = [k \in Kinds |-> PyNone]
    /\ artifact = [k \in Kinds |-> None_]
    /\ response = NoResponse
    /\ hist = HistInit
    /\ past = PastInit(env_key)

GenOff ==
    /\ g_key = NoKey
    /\ g_pc = "off"
    /\ g_call = GenNoCall
    /\ g_payload = GenNoPayload
    /\ g_parsed = ParseRaised
    /\ g_result = GenNoResult
    /\ g_log = GenLogInit

BatchOff ==
    /\ b_key = NoKey
    /\ b_cb = FALSE
    /\ b_rows = <<>>
    /\ b_pc = "off"
    /\ b_i = 0
    /\ b_script = <<>>
    /\ b_zip = <<>>
    /\ b_progress = <<>>
    /\ b_log = BatchLogInit

AppOff ==
    /\ app_key = NoKey
    /\ app_notes = <<>>
    /\ app_pc = "off"
    /\ app_in = AppNoInput
    /\ app_text = <<>>

MdOff ==
    /\ md_in = MdNoInput
    /\ md_out = MdRaised
    /\ md_pc = "off"

PromptOff ==
    /\ p_notes = <<>>
    /\ p_pc = "off"
    /\ p_in = NoPrompt
    /\ p_out = <<>>

SessOff ==
    /\ session = SessionDefaults
    /\ s_pc = "off"
    /\ s_jobs = <<>>
    /\ s_log = SessLogInit

OpenAIOff ==
    /\ o_pc = "off"
    /\ o_payload = NoList
    /\ o_out = OpenAIGuide(FALSE, <<>>)

WaitOff ==
    /\ w_pc = "off"
    /\ w_args = NoWaitArgs
    /\ w_elapsed = 0
    /\ w_payload = NoPayload
    /\ w_out = NoWaitResult

Init ==
    InitBackend /\ GenOff /\ BatchOff /\ AppOff
    /\ MdOff /\ WaitOff /\ PromptOff /\ SessOff /\ OpenAIOff
Next == NextBackend
Spec == Init /\ [][Next]_vars

InitG ==
    InitGen /\ BackendOff /\ BatchOff /\ AppOff
    /\ MdOff /\ WaitOff /\ PromptOff /\ SessOff /\ OpenAIOff
NextG == NextGen
SpecGen == InitG /\ [][NextG]_vars

InitB ==
    InitBatch /\ BackendOff /\ GenOff /\ AppOff
    /\ MdOff /\ WaitOff /\ PromptOff /\ SessOff /\ OpenAIOff
NextB == NextBatch
SpecBatch == InitB /\ [][NextB]_vars

InitA ==
    InitApp /\ BackendOff /\ GenOff /\ BatchOff
    /\ MdOff /\ WaitOff /\ PromptOff /\ SessOff /\ OpenAIOff
NextA == NextApp
SpecApp == InitA /\ [][NextA]_vars

InitM ==
    InitMd /\ BackendOff /\ GenOff /\ BatchOff
    /\ AppOff /\ WaitOff /\ PromptOff /\ SessOff /\ OpenAIOff
NextM == NextMd
SpecMd == InitM /\ [][NextM]_vars

\* the call of wait_for_video keeps running once it has begun
InitW ==
    InitWait /\ BackendOff /\ GenOff /\ BatchOff
    /\ AppOff /\ MdOff /\ PromptOff /\ SessOff /\ OpenAIOff
NextW == NextWait
SpecWait == InitW /\ [][NextW]_vars /\ WF_vars(WaitStep)

InitP ==
    InitPrompt /\ BackendOff /\ GenOff /\ BatchOff
    /\ AppOff /\ MdOff /\ WaitOff /\ SessOff /\ OpenAIOff
NextP == NextPrompt
SpecPrompt == InitP /\ [][NextP]_vars

InitS ==
    InitSess /\ BackendOff /\ GenOff /\ BatchOff
    /\ AppOff /\ MdOff /\ WaitOff /\ PromptOff /\ OpenAIOff
NextS == NextSess
SpecSess == InitS /\ [][NextS]_vars

InitO ==
    InitOpenAI /\ BackendOff /\ GenOff /\ BatchOff
    /\ AppOff /\ MdOff /\ WaitOff /\ PromptOff /\ SessOff
NextO == NextOpenAI
SpecOpenAI == InitO /\ [][NextO]_vars


(***************************************************************************)
(* Properties of the backend service, checked under Spec                   *)
(***************************************************************************)
Returned == phase = "returned"

\* C1: whatever subset of the four generation calls fails, and however it
\* fails, build_artifacts returns a package whose four artifacts are all
\* present and non-null; nothing is raised and no 500 is answered.
C1_PackageComplete ==
    Returned => /\ response.t = "package"
                /\ \A k \in Kinds : ~response.body[k].null

\* C1 witness: a package returned after the outline call failed before the
\* parser, the video reply failed validation, the quick reference fell back
\* and the instructor guide was generated.
C1_Witness ==
    /\ Returned
    /\ hist.fellBack["outline"] /\ ~hist.parserInvoked["outline"]
    /\ ~hist.fellBack["instructor"]
    /\ hist.fellBack["video"] /\ hist.parserInvoked["video"]
    /\ hist.fellBack["qrg"]

RunPaths ==
    { <<"START", "PROMPTING", "PARSING", "DONE">>,
      <<"START", "PROMPTING", "FALLBACK", "DONE">>,
      <<"START", "PROMPTING", "PARSING", "FALLBACK", "DONE">> }

IsPrefix(p, q) == Len(p) <= Len(q) /\ SubSeq(q, 1, Len(p)) = p

RunStep ==
    \/ \E k \in Kinds : Start(k) \/ CompleteNoClient(k) \/ Complete(k) \/ Parse(k) \/ FallBack(k)
    \/ Return

\* C2: each kind's run follows START -> PROMPTING -> (PARSING | FALLBACK) ->
\* DONE, with PARSING -> FALLBACK on a parse failure; it reaches DONE exactly
\* once and never stops before (a step of the run is enabled while the
\* request runs); a run that went from PROMPTING to FALLBACK never invoked
\* the parser; the package is returned only when all four kinds are DONE.
C2_RunShape ==
    /\ \A k \in Kinds :
         /\ \E q \in RunPaths : IsPrefix(hist.path[k], q)
         /\ hist.path[k][Len(hist.path[k])] = kstate[k]
         /\ hist.done[k] = IF kstate[k] = "DONE" THEN 1 ELSE 0
         /\ IsPrefix(<<"START", "PROMPTING", "FALLBACK">>, hist.path[k])
               => ~hist.parserInvoked[k]
         /\ hist.parserInvoked[k] => IsPrefix(<<"START", "PROMPTING", "PARSING">>, hist.path[k])
    /\ phase = "running" => ENABLED RunStep
    /\ Returned => \A k \in Kinds : kstate[k] = "DONE" /\ hist.done[k] = 1

\* C2 witness: a returned package whose four runs took the three paths.
C2_Witness ==
    /\ Returned
    /\ hist.path["outline"] = <<"START", "PROMPTING", "FALLBACK", "DONE">>
    /\ hist.path["instructor"] = <<"START", "PROMPTING", "PARSING", "DONE">>
    /\ hist.path["video"] = <<"START", "PROMPTING", "PARSING", "FALLBACK", "DONE">>
    /\ hist.path["qrg"] = <<"START", "PROMPTING", "PARSING", "DONE">>

\* C3: when the outline generation fails, the outline handed back is the
\* fallback template titled with the request's course title, whatever the
\* source text, the class type and the credentials of the request.
C3_OutlineFallback ==
    /\ (kstate["outline"] = "DONE" /\ hist.fellBack["outline"])
          => artifact["outline"] = Artifact(req.courseTitle, FallbackItems("outline"))
    /\ (Returned /\ hist.fellBack["outline"])
          => response.body["outline"] = Artifact(req.courseTitle, FallbackItems("outline"))

\* C3 witness: a package returned by the route for a non-empty source text
\* and a request key, whose outline fell back while the guide was generated.
C3_Witness ==
    /\ Returned
    /\ hist.fellBack["outline"]
    /\ ~hist.fellBack["instructor"]
    /\ req.extractedText # ""
    /\ req.entry = "route" /\ KeyTruthy(req.openaiApiKey)

\* the artifacts of kind k the model's replies can yield for the request
ModelArtifacts(k) ==
    { parse_obj(k, CompletionResult(r)).value :
        r \in { x \in Replies(k, req.courseTitle) :
                  PyTruthy(CompletionResult(x)) /\ parse_obj(k, CompletionResult(x)).ok } }

\* C4: whenever a kind fell back, what the caller receives identifies the
\* kind as degraded: the returned artifact of that kind is none that a
\* generation by the model could have returned for the request.
C4_DegradedVisible ==
    Returned => \A k \in Kinds :
                  hist.fellBack[k] => response.body[k] \notin ModelArtifacts(k)

\* C8: a reply that is the empty JSON object is a parsed result, told apart
\* from a failed generation: it is handed to the parser and never goes from
\* PROMPTING to FALLBACK.
C8_EmptyObjectParsed ==
    \A k \in Kinds :
        (hist.calls[k] > 0 /\ parsed[k] = EmptyObject)
            => ~IsPrefix(<<"START", "PROMPTING", "FALLBACK">>, hist.path[k])

TotalCalls == hist.calls["outline"] + hist.calls["instructor"]
              + hist.calls["video"] + hist.calls["qrg"]

\* C9: the remote model is called at most once per artifact kind and request,
\* also after a failed call, so one package costs at most four calls; a kind
\* that is in FALLBACK or DONE made its only call, if any, before.
C9_AtMostOneCall ==
    /\ \A k \in Kinds : hist.calls[k] <= 1
    /\ TotalCalls <= Len(KindSeq)
    /\ \A k \in Kinds : kstate[k] \in {"START", "PROMPTING"} => hist.calls[k] = 0

\* C9 witness: a returned package for which every kind made its one call and
\* the outline's call failed.
C9_Witness ==
    /\ Returned
    /\ TotalCalls = Len(KindSeq)
    /\ parsed["outline"] = PyNone
    /\ hist.fellBack["outline"]

\* C10: every remote call made for a POST /generate request that carries
\* openaiApiKey uses that key, not the process-wide OPENAI_API_KEY.
C10_RequestKeyUsed ==
    \A k \in Kinds :
        (req.entry = "route" /\ KeyTruthy(req.openaiApiKey) /\ hist.calls[k] > 0)
            => hist.keyUsed[k] = req.openaiApiKey

\* C11: a per-request credential never leaks into later calls: the
\* process-wide key is never changed, and whatever requests were served
\* before, a request without a credential has its remote calls made with the
\* process-wide key, and makes none when there is no such key.
C11_NoCredentialLeak ==
    /\ env_key = past.env0
    /\ ~KeyTruthy(req.openaiApiKey) =>
          \A k \in Kinds :
             /\ hist.calls[k] > 0 => hist.keyUsed[k] = past.env0
             /\ ~KeyTruthy(past.env0) => hist.calls[k] = 0

\* C11 witness: after an earlier request built a client with its own key, a
\* pipeline request without a key has returned with all four calls made.
C11_Witness ==
    /\ Returned
    /\ KeyTruthy(past.override)
    /\ req.entry = "pipeline" /\ ~KeyTruthy(req.openaiApiKey)
    /\ TotalCalls = Len(KindSeq)

\* C26: the per-request credential never appears in prompt text: for every
\* POST /generate request the values interpolated into the user prompt of
\* each kind are the request's courseTitle, classType and extractedText, so
\* requests that differ only in openaiApiKey send identical prompts (the
\* system prompts are literals).
C26_PromptWithoutCredential ==
    \A k \in Kinds :
        (req.entry = "route" /\ hist.prompt[k] # <<>>) =>
            hist.prompt[k] = <<req.courseTitle, req.classType, req.extractedText>>

\* the reply of kind k was an object whose title is usable and whose nested
\* list holds exactly one item the item model rejects
OneItemRejected(k) ==
    /\ hist.parserInvoked[k]
    /\ parsed[k].t = "object"
    /\ FieldOk("str", parsed[k].title)
    /\ parsed[k].items.t = "list"
    /\ Cardinality({i \in DOMAIN parsed[k].items.l : ~ItemOk(k, parsed[k].items.l[i])}) = 1

\* the well-formed items of a reply, as the item model returns them
WellFormedItems(k, xs) ==
    LET RECURSIVE Keep(_)
        Keep(i) == IF i > Len(xs) THEN <<>>
                   ELSE IF ItemOk(k, xs[i]) THEN <<ItemOut(k, xs[i])>> \o Keep(i + 1)
                   ELSE Keep(i + 1)
    IN Keep(1)

\* C22: in the backend service path one malformed nested item does not
\* invalidate the artifact: when the reply lists N items of which one is
\* malformed, the artifact generate_<kind> returns holds the N-1 well-formed
\* items of the reply, not the fallback template.
C22_ItemIsolation ==
    \A k \in Kinds :
        (kstate[k] = "DONE" /\ OneItemRejected(k)) =>
            /\ ~hist.fellBack[k]
            /\ artifact[k].items = WellFormedItems(k, parsed[k].items.l)


(***************************************************************************)
(* Properties of the Streamlit generator's parsers, checked under SpecGen  *)
(***************************************************************************)
ParserRan == g_pc = "done" /\ g_log.parsed

\* generator._call_json_response makes one remote call per generate_<kind>
\* call as well (the generator's side of the no-retry rule)
GenAtMostOneCall == g_log.calls <= 1 /\ (g_pc = "calling" => g_log.calls = 0)

\* C5: _parse_<kind> is total: it returns a domain object for every payload
\* and never raises.
C5_ParserTotal == ParserRan => ~g_parsed.raised

\* generate_<kind> took its failure path: it reported through st.error
GenFailed == g_pc = "done" /\ g_log.errors # <<>>

\* the backend's side of fallback totality: a fallen-back artifact has its
\* template's items and the course title as its title
BackendFallbackTotal ==
    \A k \in Kinds :
        (kstate[k] = "DONE" /\ hist.fellBack[k])
            => artifact[k].items # <<>> /\ artifact[k].title = CallArgs(req).course_title

\* C12: whatever artifact generate_<kind> returns on its failure path has a
\* non-empty top-level sequence (sections, segments or steps) and carries the
\* course title in at least one field (as it is, or in the outline's
\* "<course title> (<class type>)").
C12_FallbackTotality ==
    GenFailed =>
        /\ g_result.items # <<>>
        /\ g_result.title \in {JStr(g_call.course_title),
                               DefaultTitle(g_call.course_title, g_call.class_type)}

Malformed(k, it) == ~BuildItem(k, it, 0).ok

Without(xs, i) == [j \in 1..(Len(xs) - 1) |-> IF j < i THEN xs[j] ELSE xs[j + 1]]

OneMalformed ==
    /\ ParserRan
    /\ g_payload.t = "dict"
    /\ g_payload.items.t = "list"
    /\ Cardinality({i \in DOMAIN g_payload.items.l :
                       Malformed(g_call.kind, g_payload.items.l[i])}) = 1

\* C6: when exactly one nested item of the payload's list is malformed, the
\* parser returns the other N-1 items in their order, and the artifact is the
\* one it returns for the payload without that item.
C6_PartialDropIsolation ==
    OneMalformed =>
        LET xs == g_payload.items.l
            i == CHOOSE j \in DOMAIN xs : Malformed(g_call.kind, xs[j])
            rest == [g_payload EXCEPT !.items = ListOf(Without(xs, i))]
        IN /\ ~g_parsed.raised
           /\ Len(g_parsed.value.items) = Len(xs) - 1
           /\ g_parsed.value =
                GenParse(g_call.kind, rest, g_call.course_title, g_call.class_type).value

\* C6 witness: a quick reference of three steps whose second step is
\* malformed and whose third step has no step_number.
C6_Witness ==
    /\ OneMalformed
    /\ g_call.kind = "qrg"
    /\ Len(g_payload.items.l) = 3
    /\ Malformed("qrg", g_payload.items.l[2])
    /\ g_payload.items.l[3] = BareItem("qrg")

StepNumbers(artifact_) == [i \in DOMAIN artifact_.items |-> artifact_.items[i]["step_number"].n]

\* C7: _parse_quick_reference keeps every step that is a dict, numbering a
\* step without a usable step_number by the count of steps kept so far plus
\* one; the raw step numbers [2, missing, "abc"] give [2, 2, 3].
C7_StepNumbering ==
    (ParserRan /\ g_call.kind = "qrg" /\ g_payload.t = "dict" /\ g_payload.items.t = "list")
    => LET xs == g_payload.items.l IN
       /\ ~g_parsed.raised
       /\ Len(g_parsed.value.items) = Cardinality({i \in DOMAIN xs : xs[i].t = "dict"})
       /\ xs = << WithField("qrg", "step_number", JInt(2)), BareItem("qrg"),
                  WithField("qrg", "step_number", JText("abc", <<"a", "b", "c">>)) >>
             => StepNumbers(g_parsed.value) = <<2, 2, 3>>

(***************************************************************************)
(* Properties of the batch processor, checked under SpecBatch              *)
(***************************************************************************)
\* a row lacks a required field: the key, or its value, is not there
LacksField(row) == \E h \in REQUIRED_HEADERS : row[h].t \in {"missing", "null"}

\* process_batch has been entered
BatchEntered == b_pc \in {"loop", "outline", "script", "audio", "raised", "returned"}

BatchEnded == b_pc \in {"raised", "returned"}

\* the outputs of row j are in the archive, under the row's folder
Written(j) ==
    \A name \in {"class_outline.md", "video_script.md"} :
        \E e \in DOMAIN b_zip : b_zip[e] = Entry(j, b_rows[j], name)

\* C13: whenever a row of the batch lacks a required field, process_batch
\* fails before any row is processed: no generator call is made, no archive
\* entry is written, no progress call is made, and no archive is returned.
C13_FailFast ==
    (BatchEntered /\ \E j \in DOMAIN b_rows : LacksField(b_rows[j]))
        => /\ b_log.gen = 0
           /\ b_zip = <<>>
           /\ b_progress = <<>>
           /\ b_pc # "returned"

\* C14: a row whose processing raises does not stop the batch: when
\* process_batch has ended, every other row's outputs are in the archive.
C14_RowFailureIsolated ==
    BatchEnded => \A j \in DOMAIN b_rows : j # b_log.raised_at => Written(j)

\* C15: of the progress calls of a batch, only the last one of a batch that
\* ran to completion carries 1.0, and it does; every call before it, and every
\* call of a batch that has not completed, carries a fraction below 1.0.
C15_ProgressEndsAtOne ==
    b_cb =>
        /\ \A j \in DOMAIN b_progress : j < Len(b_progress) => BelowOne(b_progress[j])
        /\ b_pc = "returned" => b_progress # <<>> /\ b_progress[Len(b_progress)] = One
        /\ b_pc # "returned" => \A j \in DOMAIN b_progress : BelowOne(b_progress[j])

\* C15 witness: a batch of at least two rows ran to completion with a
\* progress callback.
C15_Witness ==
    /\ b_cb
    /\ b_pc = "returned"
    /\ Len(b_rows) >= 2
    /\ Len(b_progress) = Len(b_rows) + 1

EmptyDescriptionBatch ==
    /\ Len(b_rows) = 3
    /\ \A j \in DOMAIN b_rows : ~LacksField(b_rows[j])
    /\ b_rows[2]["brief_description"] = Cell(<<>>)
    /\ b_rows[1]["brief_description"] # Cell(<<>>)
    /\ b_rows[3]["brief_description"] # Cell(<<>>)

\* C17: for a 3-row batch with all fields present and row 2's description
\* empty, the returned archive has a folder with the outputs of each of the
\* three rows, and row 2's folder name has a non-empty slug after its
\* "Class_<#>_" prefix.
C17_PlaceholderSlug ==
    (b_pc = "returned" /\ EmptyDescriptionBatch)
        => /\ \A j \in DOMAIN b_rows : Written(j)
           /\ Slug(b_rows[2]) # <<>>
           /\ FolderName(b_rows[2]) # <<"C", "l", "a", "s", "s", "_", "2", "_">>

\* C30: no two rows of one batch write to the same archive path: the
\* entries of distinct rows differ in their folder name or in their file
\* name, so no row's outline, script or audio shadows another row's.
C30_DistinctPaths ==
    \A e1, e2 \in DOMAIN b_zip :
        b_zip[e1].row # b_zip[e2].row =>
            \/ b_zip[e1].folder # b_zip[e2].folder
            \/ b_zip[e1].name # b_zip[e2].name

(***************************************************************************)
(* Properties of the Streamlit app's generation flow, checked under SpecApp *)
(***************************************************************************)
\* a text holds something that is no whitespace
HasText(text) == \E i \in DOMAIN text : ~IsSpace(text[i])

\* some document, the transcript or the notes of the click contribute text
SomeSourceText ==
    \/ \E i \in DOMAIN app_in.docs : HasText(app_in.docs[i])
    \/ HasText(transcribe_audio_files(app_key, app_in.audio))
    \/ HasText(app_in.notes)

\* C18: whatever documents, transcript and notes a generation has (empty,
\* whitespace only or not), the text handed to the generators is not empty,
\* and it is the no-source sentence exactly when none of them contributes any
\* text that is not whitespace.
C18_AggregationTotal ==
    app_pc = "generated" =>
        /\ app_text # <<>>
        /\ app_text = <<NoSourceText>> <=> ~SomeSourceText

\* the parts the aggregated text is made of: each input that holds text, the
\* transcript and the notes behind their markers
ExpectedParts(document_text, transcript_text, notes) ==
    (IF HasText(document_text) THEN <<document_text>> ELSE <<>>)
    \o (IF HasText(transcript_text)
        THEN << <<TranscriptHeader, "\n">> \o transcript_text >> ELSE <<>>)
    \o (IF HasText(notes) THEN << <<NotesHeader, "\n">> \o notes >> ELSE <<>>)

\* a text without its whitespace
Visible(text) == SelectSeq(text, LAMBDA c : ~IsSpace(c))

\* no whitespace at either end
Stripped(text) == text = <<>> \/ (~IsSpace(text[1]) /\ ~IsSpace(text[Len(text)]))

\* a marker that does not open the text stands behind a blank line
MarkersAfterBlankLine(text) ==
    \A i \in DOMAIN text :
        (i > 1 /\ text[i] \in {TranscriptHeader, NotesHeader}) =>
            (i > 2 /\ text[i - 1] = "\n" /\ text[i - 2] = "\n")

\* C24: the aggregated source text holds the inputs that are not empty in the
\* order document text, transcript behind the [Audio Transcript] marker,
\* notes behind the notes marker, consecutive parts separated by a blank line
\* and no whitespace at either end; an empty input contributes neither text
\* nor its marker.
C24_AggregationOrder ==
    (app_pc = "generated" /\ SomeSourceText) =>
        /\ Stripped(app_text)
        /\ MarkersAfterBlankLine(app_text)
        /\ Visible(app_text) =
             Visible(Join(ExpectedParts(extract_text_from_files(app_in.docs),
                                        transcribe_audio_files(app_key, app_in.audio),
                                        app_in.notes),
                          <<"\n", "\n">>))

(***************************************************************************)
(* Properties of the markdown exporters, checked under SpecMd              *)
(***************************************************************************)
MdReturned == md_pc = "done" /\ ~md_out.raised

\* the labels that open a sub-block, and the labels that stand before their
\* value on one line, with no value
BlockLabels ==
    {"### Objectives", "### Subtopics", "### Narration", "### Screen Directions",
     "**Objectives:**", "**Subtopics:**", "**Narration:**", "**Screen Directions:**"}
BareLabels == {"**Action:** ", "**Action:**", "**Notes:** ", "**Duration:** ",
               "**Approx Duration:** "}

\* C19: in the markdown an exporter returns, no label of a sub-block
\* (Objectives, Subtopics, Narration, Screen Directions, Action, Notes,
\* Duration) stands with nothing under it or after it: a sub-block whose field
\* is empty is left out.
C19_EmptyBlocksOmitted ==
    MdReturned =>
        \A i \in DOMAIN md_out.lines :
            /\ md_out.lines[i] \notin BareLabels
            /\ md_out.lines[i] \in BlockLabels
                  => i < Len(md_out.lines) /\ md_out.lines[i + 1] # ""

\* C20: every exporter returns markdown for every artifact of the
\* dataclasses of models.py, an instructor guide with sections included; none
\* raises.
C20_ExportersTotal == md_pc = "done" => ~md_out.raised


(***************************************************************************)
(* Properties of wait_for_video, checked under SpecWait                    *)
(***************************************************************************)

WaitRunning == w_pc \in {"poll", "check", "sleep"}
WaitEnded == w_pc = "done"

\* how a call whose polls all returned may end
WaitEndsWell ==
    WaitEnded /\ w_out.kind # "api_error" =>
        \/ w_out.kind = "returned"
              /\ PayloadStatus(w_out.payload) \in {"completed", "failed"}
        \/ w_out.kind = "timeout" /\ w_elapsed > w_args.timeout_seconds

\* C21: wait_for_video never blocks indefinitely and never returns a
\* non-terminal status: while every poll returns and time advances, a call
\* that has begun ends, and it ends either by returning a payload whose
\* status is completed or failed or by raising the timeout HeyGenError once
\* the elapsed time exceeds timeout_seconds.
C21_WaitTerminates == [](WaitEndsWell) /\ (WaitRunning ~> WaitEnded)

\* a call that slept at least once and then timed out on a payload that is
\* still processing
C21_Witness ==
    /\ WaitEnded
    /\ w_out.kind = "timeout"
    /\ PayloadStatus(w_out.payload) = "processing"
    /\ w_elapsed > w_args.timeout_seconds
    /\ w_args.timeout_seconds > 0


(***************************************************************************)
(* Properties of the prompts' source text, checked under SpecPrompt        *)
(***************************************************************************)

\* the source text a path has to embed: the generator's combined text, the
\* backend's text
PromptSource ==
    IF p_in.path = "backend" THEN p_in.text
    ELSE build_combined_source_text(p_in.text, p_in.notes)

\* the whitespace-normalised source begins with the words of prefix
NormalisedPrefix(prefix, source) ==
    /\ Len(Words(prefix)) <= Len(Words(source))
    /\ prefix = JoinWords(Words(source), Len(Words(prefix)))

\* the excerpt is the source cut short: a prefix of the normalised source
\* followed by the truncation marker
CutAndMarked(excerpt, source) ==
    /\ excerpt # <<>>
    /\ excerpt[Len(excerpt)] = Placeholder
    /\ NormalisedPrefix(SubSeq(excerpt, 1, Len(excerpt) - 1), source)

\* C23: in every generation path the source text embedded in a user prompt
\* is held to a character budget: it is never longer than the budget, and
\* it either holds every word of the source or is a prefix of the
\* whitespace-normalised source followed by the truncation marker.
C23_ExcerptBounded ==
    (p_pc = "built" /\ TextTruthy(PromptSource)) =>
        /\ TextLength(p_out) <= DefaultLimit
        /\ Words(p_out) = Words(PromptSource) \/ CutAndMarked(p_out, PromptSource)

\* C28: in process_batch the source text of a row's prompts is determined by
\* the row's fields alone: it is the excerpt of the row's context_text,
\* whatever handwritten_notes_text the session holds.
C28_BatchPromptFromRow ==
    (p_pc = "built" /\ p_in.path = "batch") =>
        p_out = format_source_excerpt(PyStrip(p_in.text), DefaultLimit)


(***************************************************************************)
(* Properties of the app's session state, checked under SpecSess           *)
(***************************************************************************)

SessIdle == s_pc = "idle"

\* the package a render job was submitted for
JobPackage(job) == s_jobs[job]

\* C25: session state is reset on every new generation: a completed run of
\* the generation flow leaves tts_payload, heygen_video_id,
\* heygen_video_status and heygen_video_url all None, so the narration and
\* the render-job state stored never belong to a package older than the
\* current generated_package.
C25_ResetOnGeneration ==
    /\ s_log.last = "generated" =>
         /\ session.tts_payload = NoAudio
         /\ session.heygen_video_id = 0
         /\ session.heygen_video_status = NoJobValue
         /\ session.heygen_video_url = NoJobValue
    /\ session.tts_payload # NoAudio =>
         session.tts_payload.package = session.generated_package
    /\ session.heygen_video_id # 0 =>
         JobPackage(session.heygen_video_id) = session.generated_package
    /\ \A v \in {session.heygen_video_status, session.heygen_video_url} :
         v.job # 0 => JobPackage(v.job) = session.generated_package

\* C25 witness: a second package has just been generated in a session that
\* had narration and a rendered job for its first package.
C25_Witness ==
    /\ s_log.last = "generated"
    /\ s_log.generated = 2
    /\ s_log.narrated
    /\ Len(s_jobs) >= 1
    /\ session.generated_package = 2

\* C27: between script runs the status and the URL stored, when set,
\* describe the render job named by heygen_video_id: the session never shows
\* a new video id together with the status or URL of an earlier job.
C27_StatusOfCurrentJob ==
    (SessIdle /\ session.heygen_video_id # 0) =>
        \A v \in {session.heygen_video_status, session.heygen_video_url} :
            Shown(v) => v.job = session.heygen_video_id


(***************************************************************************)
(* Properties of llm_openai's parser, checked under SpecOpenAI             *)
(***************************************************************************)

\* the reply's sections are a list of well-formed sections only
AllWellFormed ==
    /\ o_payload.t = "list"
    /\ \A i \in DOMAIN o_payload.l : WellFormedSection(o_payload.l[i])

\* C29: llm_openai._parse_instructor_guide retains every well-formed
\* section: for a reply whose sections list holds N well-formed items the
\* guide returned has exactly N sections, in the order of the reply.
C29_SectionsRetained ==
    (o_pc = "done" /\ AllWellFormed) =>
        /\ ~o_out.raised
        /\ Len(o_out.sections) = Len(o_payload.l)
        /\ \A i \in DOMAIN o_payload.l : o_out.sections[i] = o_payload.l[i].f["title"]

====
